---- MODULE Spec2Model ----
(***************************************************************************)
(* Verification model of the IOUSBHost Rust bindings (iousbhost/src/lib.rs)*)
(*                                                                         *)
(* The subsystems are modelled each under its own specification:           *)
(*   SpecWalk  the descriptor-chain walkers (Descriptors, TypedDescriptors,*)
(*             AssociatedDescriptors, TypedAssociatedDescriptors,          *)
(*             EndpointDescriptors) over a configuration-descriptor region *)
(*   SpecCI    inspect_command / respond of the four host-controller-      *)
(*             interface state machines                                    *)
(*   SpecXfer  the endpoint's doorbell, transfer completion and            *)
(*             pending-transfer slot, next to its respond calls            *)
(*   SpecBridge  one AsyncHandler: poll, the native completion callback,   *)
(*             and the synchronous send / abort requests                   *)
(*   SpecPower max_power_milliamps over every MaxPower byte and speed      *)
(*   SpecPort  the port machine: commands, update_link_state, raw flags    *)
(*   SpecFields  packing and unpacking the bit fields of the message words *)
(*   SpecCapacity  burst size, multiplier and stream count of an endpoint  *)
(*   SpecIfaces  the walkers that open an interface or a pipe per item     *)
(*   SpecBridgeFair  SpecBridge with a fair executor and native side       *)
(*   SpecIter  the iterators that step a raw pointer by one element        *)
(*   SpecConfigurations  the iterator over configuration descriptors       *)
(*                                                                         *)
(* The Rust code is a thin layer over the native IOUSBHost framework.  The *)
(* Rust layer (iterator state, null checks, result conversion, constants)  *)
(* is translated from lib.rs; the native functions it calls have no source *)
(* in the repository and are modelled from the specification text.         *)
(***************************************************************************)
EXTENDS Integers, Sequences, FiniteSets, TLC

\* ------------------------------------------------------------------------
\* Bounds of the model
\* ------------------------------------------------------------------------
\* number of records that follow the configuration descriptor in a region
MaxRecords == 3
\* number of bytes that may be cut off the end of a region
MaxCut == 1
\* number of next() calls made on one walker beyond the N/2 it can yield
ExtraCalls == 2

\* ------------------------------------------------------------------------
\* Values
\* ------------------------------------------------------------------------
\* the null pointer (ptr::null()), also Option::None of a pointer
NULL == -1

\* DescriptorType, lib.rs 1190-1213
Configuration == 2
Interface == 4
Endpoint == 5
InterfaceAssociation == 11
SuperSpeedEndpointCompanion == 48

\* the descriptor types a caller filters by in the model
DescriptorTypes ==
  {Configuration, Interface, Endpoint, InterfaceAssociation,
   SuperSpeedEndpointCompanion}

\* size of IOUSBDescriptorHeader: bLength, bDescriptorType
HeaderSize == 2

\* the byte that fills a record's payload
Filler == 0

\* MessageType, lib.rs 3754-3790
ControllerPowerOn == 16
ControllerPowerOff == 17
ControllerStart == 18
ControllerPause == 19
PortPowerOn == 24
PortPowerOff == 25
PortResume == 26
PortSuspend == 27
PortDisable == 29
DeviceCreate == 32
DeviceDestroy == 33
DeviceStart == 34
DevicePause == 35
DeviceUpdate == 36
EndpointCreate == 40
EndpointDesroy == 41
EndpointPause == 43
EndpointRest == 45
NormalTransfer == 57
TransferComplete == 61

\* the message types a caller sends to a machine in the model: the commands
\* of all four machines (those of another machine are unknown to it) and a
\* message type that is no command at all
CommandTypes ==
  {ControllerPowerOn, ControllerPowerOff, ControllerStart, ControllerPause,
   PortPowerOn, PortPowerOff, PortResume, PortSuspend, PortDisable,
   DeviceCreate, DeviceDestroy, DeviceStart, DevicePause, DeviceUpdate,
   EndpointCreate, EndpointDesroy, EndpointPause, EndpointRest,
   TransferComplete}

\* MessageStatus, lib.rs 3792-3808: a variant, and the payload of Other
Status(variant, value) == [variant |-> variant, value |-> value]
Success == Status("Success", 0)
Offline == Status("Offline", 0)
StallError == Status("StallError", 0)
Other(n) == Status("Other", n)

\* the statuses a caller passes in the model
StatusValues == {Success, Offline, StallError, Other(1)}

\* impl From<MessageStatus> for u32, lib.rs 3810-3830
\* mutant: Offline is given the code of Success
MessageStatus_into_u32_offline_as_success(status) ==
  IF status.variant = "Success" THEN 1
  ELSE IF status.variant = "Offline" THEN 1
  ELSE IF status.variant = "StallError" THEN 11
  ELSE status.value

\* mutant: Success is given the code of Offline
MessageStatus_into_u32_success_as_offline(status) ==
  IF status.variant = "Success" THEN 2
  ELSE IF status.variant = "Offline" THEN 2
  ELSE IF status.variant = "StallError" THEN 11
  ELSE status.value

MessageStatus_into_u32(status) ==
  IF status.variant = "Success" THEN 1
  ELSE IF status.variant = "Offline" THEN 2
  ELSE IF status.variant = "StallError" THEN 11
  ELSE status.value

\* ControllerState, lib.rs 3991-3997
ControllerOff == 0
ControllerPaused == 1
ControllerActive == 2
\* PortState, lib.rs 4011-4018
PortOff == 0
PortPowered == 1
PortSuspended == 2
PortActive == 3
\* DeviceState, lib.rs 4051-4057
DeviceDestroyed == 0
DevicePaused == 1
DeviceActive == 2
\* EndpointState, lib.rs 4071-4078
EndpointDestroyed == 0
EndpointHalted == 1
EndpointPaused == 2
EndpointActive == 3

Machines == {"controller", "port", "device", "endpoint"}

States(m) ==
  IF m = "controller" THEN {ControllerOff, ControllerPaused, ControllerActive}
  ELSE IF m = "port" THEN {PortOff, PortPowered, PortSuspended, PortActive}
  ELSE IF m = "device" THEN {DeviceDestroyed, DevicePaused, DeviceActive}
  ELSE {EndpointDestroyed, EndpointHalted, EndpointPaused, EndpointActive}

\* the terminal state of a machine: Off / Destroyed
Terminal(m) ==
  IF m = "controller" THEN ControllerOff
  ELSE IF m = "port" THEN PortOff
  ELSE IF m = "device" THEN DeviceDestroyed
  ELSE EndpointDestroyed

Active(m) ==
  IF m = "controller" THEN ControllerActive
  ELSE IF m = "port" THEN PortActive
  ELSE IF m = "device" THEN DeviceActive
  ELSE EndpointActive

\* Paused, for a port Suspended
Paused(m) ==
  IF m = "controller" THEN ControllerPaused
  ELSE IF m = "port" THEN PortSuspended
  ELSE IF m = "device" THEN DevicePaused
  ELSE EndpointPaused

\* ------------------------------------------------------------------------
\* 32-bit words.  A u32 is kept as its two 16-bit halves; the operations
\* are those of Rust's u32 (&, |, <<, >>).
\* ------------------------------------------------------------------------
U32(hi, lo) == [hi |-> hi, lo |-> lo]

\* the word of a number below 2^31
Word(x) == U32((x \div 65536) % 65536, x % 65536)

\* the number of a word below 2^31
Value(w) == w.hi * 65536 + w.lo

RECURSIVE And16(_, _)
And16(x, y) ==
  IF x = 0 \/ y = 0 THEN 0
  ELSE (x % 2) * (y % 2) + 2 * And16(x \div 2, y \div 2)

RECURSIVE Or16(_, _)
Or16(x, y) ==
  IF x = 0 THEN y
  ELSE IF y = 0 THEN x
  ELSE (IF x % 2 = 1 \/ y % 2 = 1 THEN 1 ELSE 0)
       + 2 * Or16(x \div 2, y \div 2)

BitAnd(a, b) == U32(And16(a.hi, b.hi), And16(a.lo, b.lo))
BitOr(a, b) == U32(Or16(a.hi, b.hi), Or16(a.lo, b.lo))

\* w << n, bits shifted out of the word are lost
ShiftLeft(w, n) ==
  IF n >= 16 THEN U32((w.lo * 2^(n - 16)) % 65536, 0)
  ELSE U32(((w.hi * 2^n) % 65536) + ((w.lo * 2^n) \div 65536),
           (w.lo * 2^n) % 65536)

\* w >> n
ShiftRight(w, n) ==
  IF n >= 16 THEN U32(0, w.hi \div 2^(n - 16))
  ELSE U32(w.hi \div 2^n, (w.lo \div 2^n) + (w.hi % 2^n) * 2^(16 - n))

\* TransferCompletionMessage, lib.rs 4115-4126
\* Status = 3840
TransferCompletionStatus == U32(0, 3840)
TransferCompletionStatusPhase == 8
\* DeviceAddress = 16711680
TransferCompletionDeviceAddress == U32(255, 0)
TransferCompletionDeviceAddressPhase == 16
\* EndpointAddress = 4278190080
TransferCompletionEndpointAddress == U32(65280, 0)
TransferCompletionEndpointAddressPhase == 24
\* Data0TransferLength = 268435455
TransferCompletionData0TransferLength == U32(4095, 65535)
TransferCompletionData0TransferLengthPhase == 0

\* Doorbell, lib.rs 3971-3978
\* DeviceAddress = 255
DoorbellDeviceAddress == U32(0, 255)
DoorbellDeviceAddressPhase == 0
\* mutant: the endpoint-address mask starts one bit above its phase
DoorbellEndpointAddress_above_phase == U32(0, 65024)
\* EndpointAddress = 65280
DoorbellEndpointAddress == U32(0, 65280)
DoorbellEndpointAddressPhase == 8
\* StreamId = 4294901760
DoorbellStreamId == U32(65535, 0)
DoorbellStreamIDPhase == 16

VARIABLES
  \* ---- descriptor walkers ----
  region,               \* the bytes of the configuration descriptor region
  recs,                 \* the records the region was laid out from (layout)
  cut,                  \* bytes cut off the laid-out region
  kind,                 \* which walker struct is alive ("none" before one is made)
  descriptor_type,      \* TypedDescriptors.descriptor_type
  assoc_descriptor,     \* AssociatedDescriptors.assoc_descriptor
  interface_descriptor, \* EndpointDescriptors.interface_descriptor
  current_descriptor,   \* <walker>.current_descriptor
  yielded,              \* positions returned as Some(..) so far, in order
  calls,                \* number of next() calls on the walker
  lastItem,             \* result of the latest next(): a position or NULL
  \* ---- host-controller-interface state machines ----
  controllerState,      \* IOUSBHostCIControllerStateMachine.controllerState
  portState,            \* IOUSBHostCIPortStateMachine.portState
  deviceState,          \* IOUSBHostCIDeviceStateMachine.deviceState
  deviceAddress,        \* IOUSBHostCIDeviceStateMachine.deviceAddress
  endpointState,        \* IOUSBHostCIEndpointStateMachine.endpointState
  endpointFailures,     \* failed responses of the endpoint since the last success
  ep_device_address,    \* IOUSBHostCIEndpointStateMachine.deviceAddress
  ep_endpoint_address,  \* IOUSBHostCIEndpointStateMachine.endpointAddress
  currentTransfer,      \* the endpoint's pending-transfer slot (NoMessage when empty)
  held,                 \* the Message the caller holds (NoMessage when none)
  last,                 \* the latest call: operation, arguments, outcome
  \* ---- raw status of the port state machine ----
  linkState,            \* IOUSBHostCIPortStateMachine.linkState (u32 code)
  speed,                \* IOUSBHostCIPortStateMachine.speed (u32 code)
  powered,              \* IOUSBHostCIPortStateMachine.powered
  connected,            \* IOUSBHostCIPortStateMachine.connected
  overcurrent,          \* IOUSBHostCIPortStateMachine.overcurrent
  \* ---- completion bridge (AsyncHandler / AsyncDataHandler) ----
  finished,             \* the bool inside AsyncHandler.finished
  finishedLock,         \* who holds the finished mutex: "free", "poll", "callback"
  poisoned,             \* the finished mutex is poisoned
  handler,              \* AsyncHandler.handler: 0 for null, else the latest callback
  pollPc,               \* where the thread driving poll() stands
  pollOutcome,          \* what cb_handler returned to the running poll()
  pollResult,           \* what the latest finished poll() returned
  polls,                \* poll() calls made
  enqueues,             \* native enqueue calls made through cb_handler
  outstanding,          \* status of each request the native side still holds
  cbPc,                 \* where the thread running the callback stands
  cbStatus,             \* status the native side completed the request with
  fired,                \* statuses of the completions delivered so far
  wakes,                \* waker.wake() calls made
  sync,                 \* the latest synchronous request: native BOOL, result
  \* ---- configuration power ----
  MaxPower,             \* IOUSBConfigurationDescriptor.MaxPower
  usb_device_speed,     \* the speed the caller derives the power for
  milliamps,            \* result of max_power_milliamps ("none" before the call)
  \* ---- bit fields of the message words ----
  packedLayout,         \* which word was packed ("none" before one is)
  packedValues,         \* the field values packed into it, in field order
  packedWord,           \* the u32 word
  unpackedValues,       \* (word & mask) >> phase of each field (<<>> before)
  \* ---- endpoint capacity ----
  io_source,            \* the IOUSBHostIOSourceDescriptors struct of an endpoint
  endpoint_speed,       \* the DeviceSpeed the capacity is derived for
  views,                \* where each view made from io_source points
  derived,              \* the latest derivation: operation and value
  \* ---- lifetime of the bridge ----
  bridge,               \* the AsyncHandler: "alive", or "dropped" with the future
  \* ---- iterators that step a raw pointer by one element ----
  iterator,             \* which iterator struct ("none" when none is made)
  elements,             \* number of elements present behind the start pointer
  inner,                \* the iterator's pointer field
  items,                \* the pointers yielded as Some, in order
  nexts,                \* number of next() calls made
  returned,             \* what the latest next() did ("none" before one)
  \* ---- iterator over the configuration descriptors of a device ----
  configuration_count,  \* bNumConfigurations of the device descriptor (u8)
  idx,                  \* ConfigurationDescriptors.idx (u8)
  configurations,       \* the indices whose descriptor was yielded, in order
  configuration_calls,  \* number of next() calls made
  configuration_result  \* what the latest next() did ("none" before one)

walkVars ==
  <<region, recs, cut, kind, descriptor_type, assoc_descriptor,
    interface_descriptor, current_descriptor, yielded, calls, lastItem>>

ciVars ==
  <<controllerState, portState, deviceState, deviceAddress, endpointState,
    endpointFailures, ep_device_address, ep_endpoint_address,
    currentTransfer, held, last>>

portVars == <<linkState, speed, powered, connected, overcurrent>>

bridgeVars ==
  <<finished, finishedLock, poisoned, handler, pollPc, pollOutcome,
    pollResult, polls, enqueues, outstanding, cbPc, cbStatus, fired, wakes,
    sync>>

powerVars == <<MaxPower, usb_device_speed, milliamps>>

fieldVars == <<packedLayout, packedValues, packedWord, unpackedValues>>

\* the variables of the pure derivations
capVars == <<io_source, endpoint_speed, views, derived>>

lifeVars == <<bridge>>

iterVars == <<iterator, elements, inner, items, nexts, returned>>

configVars ==
  <<configuration_count, idx, configurations, configuration_calls,
    configuration_result>>

stepVars == <<iterVars, configVars>>

auxVars == <<fieldVars, capVars, lifeVars, stepVars>>

\* what the walkers and the four machines' commands leave alone
restVars == <<portVars, bridgeVars, powerVars, auxVars>>

vars == <<walkVars, ciVars, restVars>>

\* a call that ended in a panic instead of returning
Panic == "Panic"

\* the null Message pointer, None of an Option<Message>
NoMessage ==
  [control |-> [hi |-> NULL, lo |-> NULL], data0 |-> [hi |-> NULL, lo |-> NULL],
   data1 |-> NULL]

\* no call before the latest one
NoPrevious ==
  [op |-> "none", status |-> Success, length |-> NULL, result |-> "none"]

\* no call made yet
NoCall ==
  [machine |-> "none", op |-> "none", type |-> NULL, status |-> Success,
   length |-> NULL, pre |-> NULL, slot |-> NoMessage, native |-> TRUE,
   result |-> "none", value |-> NoMessage, prev |-> NoPrevious]

\* the state-machine variables of a run that only walks descriptors
NoMachines ==
  /\ controllerState = ControllerOff
  /\ portState = PortOff
  /\ deviceState = DeviceDestroyed
  /\ deviceAddress = 0
  /\ endpointState = EndpointDestroyed
  /\ endpointFailures = 0
  /\ ep_device_address = 0
  /\ ep_endpoint_address = 0
  /\ currentTransfer = NoMessage
  /\ held = NoMessage
  /\ last = NoCall

\* the raw port status of a run that does not touch it
NoPort ==
  /\ linkState = 0
  /\ speed = 0
  /\ powered = FALSE
  /\ connected = FALSE
  /\ overcurrent = FALSE

\* no synchronous request made yet
NoSync == [op |-> "none", native |-> TRUE, result |-> "none"]

\* the bridge variables of a run that makes no request
NoBridge ==
  /\ finished = FALSE
  /\ finishedLock = "free"
  /\ poisoned = FALSE
  /\ handler = 0
  /\ pollPc = "idle"
  /\ pollOutcome = "none"
  /\ pollResult = "none"
  /\ polls = 0
  /\ enqueues = 0
  /\ outstanding = <<>>
  /\ cbPc = "idle"
  /\ cbStatus = "none"
  /\ fired = <<>>
  /\ wakes = 0
  /\ sync = NoSync

\* the power variables of a run that derives no power
NoPower ==
  /\ MaxPower = 0
  /\ usb_device_speed = 0
  /\ milliamps = NULL

\* no word packed yet
NoFields ==
  /\ packedLayout = "none"
  /\ packedValues = <<>>
  /\ packedWord = [hi |-> 0, lo |-> 0]
  /\ unpackedValues = <<>>

\* no view made and nothing derived yet
NoViews == [endpoint |-> "none", ss |-> "none", ssp |-> "none"]
NoDerived == [op |-> "none", value |-> NULL]

\* the capacity variables of a run that derives no capacity
NoCapacity ==
  /\ io_source = NULL
  /\ endpoint_speed = NULL
  /\ views = NoViews
  /\ derived = NoDerived

\* the walker variables of a run that walks nothing
NoWalk ==
  /\ region = <<>> /\ recs = <<>> /\ cut = 0 /\ kind = "none"
  /\ descriptor_type = NULL /\ assoc_descriptor = NULL
  /\ interface_descriptor = NULL /\ current_descriptor = NULL
  /\ yielded = <<>> /\ calls = 0 /\ lastItem = NULL

\* a pointer: the allocation it points into ("null" for an address that
\* belongs to none) and its distance from that start, in elements
Ptr(base, offset) == [base |-> base, offset |-> offset]
NullPtr == Ptr("null", 0)

\* no pointer-stepping iterator made
NoIterator ==
  /\ iterator = "none" /\ elements = 0 /\ inner = NullPtr
  /\ items = <<>> /\ nexts = 0 /\ returned = "none"

\* no iterator over configuration descriptors made
NoConfigurations ==
  /\ configuration_count = 0 /\ idx = 0 /\ configurations = <<>>
  /\ configuration_calls = 0 /\ configuration_result = "none"

NoSteps == NoIterator /\ NoConfigurations

\* the variables of the pure derivations in a run that makes none
NoAux ==
  /\ NoFields
  /\ NoCapacity
  /\ bridge = "alive"
  /\ NoSteps

\* ------------------------------------------------------------------------
\* Descriptor regions
\* ------------------------------------------------------------------------
\* a record as laid out: declared bLength and bDescriptorType
Rec(len, type) == [len |-> len, type |-> type]

\* the records that may follow the configuration descriptor: well-formed
\* ones, one with a payload byte, and corrupt ones declaring length 0 or 1
RecordKinds ==
  {Rec(2, Interface), Rec(2, Endpoint), Rec(3, Endpoint),
   Rec(2, InterfaceAssociation), Rec(2, SuperSpeedEndpointCompanion),
   Rec(0, Endpoint), Rec(1, Interface)}

\* the leading configuration descriptor of a region (payload elided)
ConfigRecord == Rec(2, Configuration)

\* bytes a record occupies: its header, then its payload
Occupied(r) == IF r.len < HeaderSize THEN HeaderSize ELSE r.len

RecBytes(r) ==
  <<r.len, r.type>> \o [i \in 1..(Occupied(r) - HeaderSize) |-> Filler]

RECURSIVE Layout(_)
Layout(rs) ==
  IF rs = <<>> THEN <<>> ELSE RecBytes(Head(rs)) \o Layout(Tail(rs))

RecordSeqs == UNION {[1..n -> RecordKinds] : n \in 0..MaxRecords}

\* position (byte offset) of the i-th laid-out record
RECURSIVE PosOf(_, _)
PosOf(rs, i) == IF i <= 1 THEN 0 ELSE PosOf(rs, i - 1) + Occupied(rs[i - 1])

\* the region is well formed: every record declares a length >= 2 and
\* nothing was cut off
WellFormed ==
  /\ cut = 0
  /\ \A i \in 1..Len(recs) : recs[i].len >= HeaderSize

\* region length N
N == Len(region)

\* byte at offset p of the region
Byte(p) == region[p + 1]
bLength(p) == Byte(p)
bDescriptorType(p) == Byte(p + 1)

\* ------------------------------------------------------------------------
\* Native chain functions (IOUSBHost framework; behaviour as specified in
\* spec.md 3 and 4.1)
\* ------------------------------------------------------------------------
\* Skip the record at `cur` by its declared length; a null `cur` stands for
\* the start of the region (the configuration descriptor).  Null when the
\* record at `cur` or the one after it is corrupt (length 0 or 1) or does
\* not fit in the region.
IOUSBGetNextDescriptor(cur) ==
  LET c == IF cur = NULL THEN 0 ELSE cur IN
  IF c + HeaderSize > N THEN NULL
  ELSE IF bLength(c) < HeaderSize THEN NULL
  ELSE LET n == c + bLength(c) IN
       IF n + HeaderSize > N THEN NULL
       ELSE IF bLength(n) < HeaderSize \/ n + bLength(n) > N THEN NULL
       ELSE n

\* keep advancing until a record of type `type` is found or the chain ends
RECURSIVE IOUSBGetNextDescriptorWithType(_, _)
IOUSBGetNextDescriptorWithType(cur, type) ==
  LET n == IOUSBGetNextDescriptor(cur) IN
  IF n = NULL THEN NULL
  ELSE IF bDescriptorType(n) = type THEN n
  ELSE IOUSBGetNextDescriptorWithType(n, type)

\* nesting level of a descriptor type: an interface association groups
\* interfaces, an interface groups endpoints, an endpoint groups the rest
NestingLevel(type) ==
  IF type = InterfaceAssociation THEN 1
  ELSE IF type = Interface THEN 2
  ELSE IF type = Endpoint THEN 3
  ELSE 4

\* the record at `p` starts a new group of the same or a higher level than
\* the owner `parent`
StartsNewGroup(parent, p) ==
  NestingLevel(bDescriptorType(p)) <= NestingLevel(bDescriptorType(parent))

\* the next record after `cur` (after `parent` when `cur` is null) that is
\* still inside the group owned by `parent`
IOUSBGetNextAssociatedDescriptor(parent, cur) ==
  LET n == IOUSBGetNextDescriptor(IF cur = NULL THEN parent ELSE cur) IN
  IF n = NULL THEN NULL
  ELSE IF StartsNewGroup(parent, n) THEN NULL
  ELSE n

RECURSIVE IOUSBGetNextAssociatedDescriptorWithType(_, _, _)
IOUSBGetNextAssociatedDescriptorWithType(parent, cur, type) ==
  LET n == IOUSBGetNextAssociatedDescriptor(parent, cur) IN
  IF n = NULL THEN NULL
  ELSE IF bDescriptorType(n) = type THEN n
  ELSE IOUSBGetNextAssociatedDescriptorWithType(parent, n, type)

IOUSBGetNextEndpointDescriptor(interface, cur) ==
  IOUSBGetNextAssociatedDescriptorWithType(interface, cur, Endpoint)

\* ------------------------------------------------------------------------
\* The Rust iterators: next() of each walker, as the pair of the walker's
\* new current_descriptor and the item returned (NULL for None)
\* ------------------------------------------------------------------------
Step(cur, item) == [current |-> cur, item |-> item]

\* mutant: the cursor is not advanced to the record returned
Descriptors_next_keeps_cursor(cur) ==
  LET next == IOUSBGetNextDescriptor(cur) IN
  IF next = NULL THEN Step(cur, NULL) ELSE Step(cur, next)

\* mutant: the walker advances by the declared length itself and only
\* checks for the end of the region, not the record it lands on
Descriptors_next_unchecked(cur) ==
  LET c == IF cur = NULL THEN 0 ELSE cur
      n == c + bLength(c) IN
  IF n >= N THEN Step(cur, NULL) ELSE Step(n, n)

Descriptors_next(cur) ==
  LET next == IOUSBGetNextDescriptor(cur) IN
  IF next = NULL THEN Step(cur, NULL) ELSE Step(next, next)

\* mutant: the filter type is not passed on, every record is returned
TypedDescriptors_next_unfiltered(cur, type) ==
  LET next == IOUSBGetNextDescriptor(cur) IN
  IF next = NULL THEN Step(cur, NULL) ELSE Step(next, next)

TypedDescriptors_next(cur, type) ==
  LET next == IOUSBGetNextDescriptorWithType(cur, type) IN
  IF next = NULL THEN Step(cur, NULL) ELSE Step(next, next)

\* mutant: the scan restarts behind the owner at every call
AssociatedDescriptors_next_restarts(assoc, cur) ==
  LET next == IOUSBGetNextAssociatedDescriptor(assoc, NULL) IN
  IF next = NULL THEN Step(cur, NULL) ELSE Step(next, next)

AssociatedDescriptors_next(assoc, cur) ==
  LET next == IOUSBGetNextAssociatedDescriptor(assoc, cur) IN
  IF next = NULL THEN Step(cur, NULL) ELSE Step(next, next)

TypedAssociatedDescriptors_next(assoc, cur, type) ==
  LET next == IOUSBGetNextAssociatedDescriptorWithType(assoc, cur, type) IN
  IF next = NULL THEN Step(cur, NULL) ELSE Step(next, next)

\* mutant: the owning interface is ignored, endpoints of the whole
\* configuration are returned
EndpointDescriptors_next_unscoped(interface, cur) ==
  LET next == IOUSBGetNextDescriptorWithType(
                IF cur = NULL THEN interface ELSE cur, Endpoint) IN
  IF next = NULL THEN Step(cur, NULL) ELSE Step(next, next)

EndpointDescriptors_next(interface, cur) ==
  LET next == IOUSBGetNextEndpointDescriptor(interface, cur) IN
  IF next = NULL THEN Step(cur, NULL) ELSE Step(next, next)

\* ------------------------------------------------------------------------
\* Walker operations
\* ------------------------------------------------------------------------
\* the headers a caller can hold: those the unfiltered walker yields
RECURSIVE ChainFrom(_)
ChainFrom(cur) ==
  LET n == IOUSBGetNextDescriptor(cur) IN
  IF n = NULL THEN {} ELSE {n} \cup ChainFrom(n)

Headers == ChainFrom(NULL)

\* number of next() calls the model makes on one walker
MaxCalls == (N \div 2) + ExtraCalls

InitWalk ==
  /\ \E rs \in RecordSeqs, c \in 0..MaxCut :
       /\ recs = <<ConfigRecord>> \o rs
       /\ cut = c
       /\ region = SubSeq(Layout(<<ConfigRecord>> \o rs), 1,
                          Len(Layout(<<ConfigRecord>> \o rs)) - c)
  /\ kind = "none"
  /\ descriptor_type = NULL
  /\ assoc_descriptor = NULL
  /\ interface_descriptor = NULL
  /\ current_descriptor = NULL
  /\ yielded = <<>>
  /\ calls = 0
  /\ lastItem = NULL
  /\ NoMachines
  /\ NoPort /\ NoBridge /\ NoPower /\ NoAux

\* a fresh walker: current_descriptor = ptr::null()
Fresh(k, type, assoc, interface) ==
  /\ kind = "none"
  /\ kind' = k
  /\ descriptor_type' = type
  /\ assoc_descriptor' = assoc
  /\ interface_descriptor' = interface
  /\ current_descriptor' = NULL
  /\ yielded' = <<>>
  /\ calls' = 0
  /\ lastItem' = NULL
  /\ UNCHANGED <<region, recs, cut>>
  /\ UNCHANGED <<ciVars, restVars>>

descriptors == Fresh("Descriptors", NULL, NULL, NULL)

descriptors_with_type ==
  \E t \in DescriptorTypes : Fresh("TypedDescriptors", t, NULL, NULL)

associated_descriptors ==
  \E d \in Headers : Fresh("AssociatedDescriptors", NULL, d, NULL)

associated_descriptors_with_type ==
  \E d \in Headers, t \in DescriptorTypes :
    Fresh("TypedAssociatedDescriptors", t, d, NULL)

endpoint_descriptors ==
  \E d \in Headers :
    /\ bDescriptorType(d) = Interface
    /\ Fresh("EndpointDescriptors", NULL, NULL, d)

\* one next() call whose outcome is `s`
Advance(s) ==
  /\ calls < MaxCalls
  /\ calls' = calls + 1
  /\ current_descriptor' = s.current
  /\ lastItem' = s.item
  /\ yielded' = IF s.item = NULL THEN yielded ELSE Append(yielded, s.item)
  /\ UNCHANGED <<region, recs, cut, kind, descriptor_type, assoc_descriptor,
                 interface_descriptor>>
  /\ UNCHANGED <<ciVars, restVars>>

DescriptorsNext ==
  /\ kind = "Descriptors"
  /\ Advance(Descriptors_next(current_descriptor))

TypedDescriptorsNext ==
  /\ kind = "TypedDescriptors"
  /\ Advance(TypedDescriptors_next(current_descriptor, descriptor_type))

AssociatedDescriptorsNext ==
  /\ kind = "AssociatedDescriptors"
  /\ Advance(AssociatedDescriptors_next(assoc_descriptor, current_descriptor))

TypedAssociatedDescriptorsNext ==
  /\ kind = "TypedAssociatedDescriptors"
  /\ Advance(TypedAssociatedDescriptors_next(assoc_descriptor,
                                            current_descriptor,
                                            descriptor_type))

EndpointDescriptorsNext ==
  /\ kind = "EndpointDescriptors"
  /\ Advance(EndpointDescriptors_next(interface_descriptor,
                                     current_descriptor))

NextWalk ==
  \/ descriptors
  \/ descriptors_with_type
  \/ associated_descriptors
  \/ associated_descriptors_with_type
  \/ endpoint_descriptors
  \/ DescriptorsNext
  \/ TypedDescriptorsNext
  \/ AssociatedDescriptorsNext
  \/ TypedAssociatedDescriptorsNext
  \/ EndpointDescriptorsNext

SpecWalk == InitWalk /\ [][NextWalk]_vars

\* ------------------------------------------------------------------------
\* Properties of the walkers
\* ------------------------------------------------------------------------
\* a walker has run to exhaustion: its latest next() returned None
Exhausted == kind # "none" /\ calls > 0 /\ lastItem = NULL

IsPrefix(s, t) == Len(s) <= Len(t) /\ SubSeq(t, 1, Len(s)) = s

\* indices of the laid-out records, in order
Indices == [i \in 1..Len(recs) |-> i]

\* positions of the laid-out records whose index satisfies Keep, in region
\* order
Positions(Keep(_)) ==
  LET kept == SelectSeq(Indices, Keep) IN
  [k \in 1..Len(kept) |-> PosOf(recs, kept[k])]

\* index of the laid-out record at position p (0 when there is none)
IndexAt(p) ==
  IF \E i \in 1..Len(recs) : PosOf(recs, i) = p
  THEN CHOOSE i \in 1..Len(recs) : PosOf(recs, i) = p
  ELSE 0

\* the laid-out record i is corrupt or does not fit in the region
Bad(i) ==
  \/ recs[i].len < HeaderSize
  \/ PosOf(recs, i) + recs[i].len > N

\* C1: every walker (unfiltered, type-filtered, association-scoped,
\* type-filtered association-scoped, endpoint) over a region of length N,
\* corrupt records included, yields at most N/2 items and has reported
\* exhaustion by its (N/2 + 1)-th next() call.
C1_Termination ==
  kind # "none" =>
    /\ 2 * Len(yielded) <= N
    /\ (calls > N \div 2 => lastItem = NULL)

\* C1 witness: a walker ran to exhaustion, after yielding, over a region
\* that holds a record declaring length 0 or 1
C1_Witness ==
  /\ Exhausted
  /\ Len(yielded) >= 1
  /\ \E i \in 1..Len(recs) : recs[i].len < HeaderSize

\* C2 as stated: in a well-formed region the exhausted type-filtered walker
\* has yielded every record of the region whose type is T, the leading
\* configuration descriptor included.
C2_Original ==
  (kind = "TypedDescriptors" /\ WellFormed /\ Exhausted) =>
    yielded = Positions(LAMBDA i : recs[i].type = descriptor_type)

\* C2 amended: in a well-formed region the type-filtered walker yields
\* exactly the records after the leading configuration descriptor whose
\* type is T, each once, in region order, and no record of another type.
C2_TypedFidelity ==
  (kind = "TypedDescriptors" /\ WellFormed) =>
    LET expected ==
          Positions(LAMBDA i : i >= 2 /\ recs[i].type = descriptor_type) IN
    /\ IsPrefix(yielded, expected)
    /\ (Exhausted => yielded = expected)
    /\ \A k \in 1..Len(yielded) : bDescriptorType(yielded[k]) = descriptor_type

\* C2 witness: the filter skipped records of other types and the walker
\* was exhausted after yielding two records
C2_Witness ==
  /\ kind = "TypedDescriptors" /\ WellFormed /\ Exhausted
  /\ Len(yielded) = 2
  /\ \E i \in 2..Len(recs) : recs[i].type # descriptor_type

\* the owner of the association-scoped walker alive, NULL when none
Owner ==
  IF kind = "EndpointDescriptors" THEN interface_descriptor
  ELSE IF kind \in {"AssociatedDescriptors", "TypedAssociatedDescriptors"}
       THEN assoc_descriptor
  ELSE NULL

\* record j lies after owner record o and before the next Interface or
\* InterfaceAssociation record
InScope(o, j) ==
  /\ j > o
  /\ \A k \in (o + 1)..j :
       recs[k].type \notin {Interface, InterfaceAssociation}

\* C3: a walker scoped to an Interface record yields only records after the
\* owner and before the next Interface / InterfaceAssociation record; the
\* endpoint walker of an interface yields exactly the Endpoint records in
\* that range (in a well-formed region, once exhausted).
C3_AssociationScope ==
  (Owner # NULL /\ bDescriptorType(Owner) = Interface) =>
    LET o == IndexAt(Owner) IN
    /\ \A k \in 1..Len(yielded) :
         /\ IndexAt(yielded[k]) # 0
         /\ InScope(o, IndexAt(yielded[k]))
    /\ (kind = "EndpointDescriptors" /\ WellFormed /\ Exhausted) =>
         yielded = Positions(LAMBDA j : recs[j].type = Endpoint /\ InScope(o, j))

\* C3 witness: the endpoint walker of an interface yielded that interface's
\* endpoint and was exhausted at the Interface / InterfaceAssociation
\* record that follows it
C3_Witness ==
  /\ kind = "EndpointDescriptors" /\ WellFormed /\ Exhausted
  /\ Len(yielded) >= 1
  /\ \E j \in 1..Len(recs) :
       /\ j > IndexAt(yielded[Len(yielded)])
       /\ recs[j].type \in {Interface, InterfaceAssociation}

\* C4: every record a walker yields declares a length >= 2 and lies inside
\* the region; no walker yields a record that is corrupt or overruns the
\* region end, nor any record laid out after such a record.
C4_YieldedInBounds ==
  \A k \in 1..Len(yielded) :
    LET p == yielded[k] IN
    /\ p >= 0
    /\ p + HeaderSize <= N
    /\ bLength(p) >= HeaderSize
    /\ p + bLength(p) <= N
    /\ \A i \in 1..Len(recs) : Bad(i) => p < PosOf(recs, i)

\* C4 witness: a walker stopped at a record that is corrupt or overruns
\* the region, after yielding the records before it
C4_Witness ==
  /\ Exhausted
  /\ Len(yielded) >= 1
  /\ \E i \in 1..Len(recs) :
       /\ Bad(i)
       /\ PosOf(recs, i) = yielded[Len(yielded)] + bLength(yielded[Len(yielded)])


\* ------------------------------------------------------------------------
\* Native state machines (IOUSBHostCI*StateMachine; behaviour as specified
\* in spec.md 3 and 4.4)
\* ------------------------------------------------------------------------
\* number of consecutive failed responses after which an endpoint halts
EndpointFailureLimit == 2

\* what a message type asks of machine m; "Unknown" when the type is not a
\* command of that machine
CommandClass(m, type) ==
  IF m = "controller" THEN
    (IF type = ControllerPowerOn THEN "Create"
     ELSE IF type = ControllerPowerOff THEN "Destroy"
     ELSE IF type = ControllerStart THEN "Start"
     ELSE IF type = ControllerPause THEN "Pause"
     ELSE "Unknown")
  ELSE IF m = "port" THEN
    (IF type = PortPowerOn THEN "Create"
     ELSE IF type = PortPowerOff THEN "Destroy"
     ELSE IF type = PortResume THEN "Start"
     ELSE IF type = PortSuspend THEN "Pause"
     ELSE IF type = PortDisable THEN "Disable"
     ELSE "Unknown")
  ELSE IF m = "device" THEN
    (IF type = DeviceCreate THEN "Create"
     ELSE IF type = DeviceDestroy THEN "Destroy"
     ELSE IF type = DeviceStart THEN "Start"
     ELSE IF type = DevicePause THEN "Pause"
     ELSE IF type = DeviceUpdate THEN "Update"
     ELSE "Unknown")
  ELSE
    (IF type = EndpointCreate THEN "Create"
     ELSE IF type = EndpointDesroy THEN "Destroy"
     ELSE IF type = EndpointPause THEN "Pause"
     ELSE IF type = EndpointRest THEN "Reset"
     ELSE "Unknown")

\* the error a command meets in state `state`, "none" when it is legal
CommandError(m, state, type) ==
  LET class == CommandClass(m, type) IN
  IF class = "Unknown" THEN "BadArgument"
  ELSE IF state = Terminal(m) THEN "InvalidObject"
  ELSE IF class = "Create" /\ state = Active(m) THEN "IllegalTransition"
  ELSE IF class = "Pause" /\ state # Active(m) THEN "IllegalTransition"
  ELSE IF class = "Start" /\ state # Paused(m) THEN "IllegalTransition"
  ELSE IF class = "Reset" /\ state # EndpointHalted THEN "IllegalTransition"
  ELSE "none"

\* the state a successfully answered command leaves the machine in
PostState(m, state, type) ==
  LET class == CommandClass(m, type) IN
  IF class = "Create" THEN Active(m)
  ELSE IF class = "Destroy" THEN Terminal(m)
  ELSE IF class = "Pause" THEN Paused(m)
  ELSE IF class = "Start" THEN Active(m)
  ELSE IF class = "Reset" THEN EndpointPaused
  ELSE IF class = "Disable" THEN PortPowered
  ELSE state

\* outcome of a native call: the BOOL returned, the NSError written, and
\* the machine's fields after the call
Outcome(ok, error, state, failures) ==
  [ok |-> ok, error |-> error, state |-> state, failures |-> failures]

\* -[inspectCommand:error:]
inspectCommand_error(m, state, failures, type) ==
  LET e == CommandError(m, state, type) IN
  Outcome(e = "none", e, state, failures)

\* -[respondToCommand:status:error:]
respondToCommand_status_error(m, state, failures, type, status) ==
  LET e == CommandError(m, state, type) IN
  IF e # "none" THEN Outcome(FALSE, e, state, failures)
  ELSE IF status = 1 THEN Outcome(TRUE, "none", PostState(m, state, type), 0)
  ELSE IF m = "endpoint" /\ failures + 1 >= EndpointFailureLimit
       THEN Outcome(TRUE, "none", EndpointHalted, 0)
  ELSE IF m = "endpoint" THEN Outcome(TRUE, "none", state, failures + 1)
  ELSE Outcome(TRUE, "none", state, failures)

\* ------------------------------------------------------------------------
\* The Rust wrappers of the state machines
\* ------------------------------------------------------------------------
\* impl From<NSErr> for UsbError: every code ends in todo!()
NSErr_into_UsbError(err) == Panic

\* Err(err.into())
Err(err) ==
  LET e == NSErr_into_UsbError(err) IN
  IF e = Panic THEN Panic ELSE "Err:" \o e

Ok == "Ok"

\* inspect_command of all four machines: if !native { Err } else { Ok }
inspect_command(m, state, failures, type) ==
  LET n == inspectCommand_error(m, state, failures, type) IN
  [native |-> n, result |-> IF ~n.ok THEN Err(n.error) ELSE Ok]

\* EndpointStateMachine::respond
EndpointStateMachine_respond(state, failures, type, status) ==
  LET n == respondToCommand_status_error("endpoint", state, failures, type,
                                         MessageStatus_into_u32(status)) IN
  [native |-> n, result |-> IF ~n.ok THEN Err(n.error) ELSE Ok]

\* PortStateMachine::respond
PortStateMachine_respond(state, type, status) ==
  LET n == respondToCommand_status_error("port", state, 0, type,
                                         MessageStatus_into_u32(status)) IN
  [native |-> n, result |-> IF ~n.ok THEN Err(n.error) ELSE Ok]

\* ControllerStateMachine::respond: the BOOL of the native call is taken
\* for is_err; both arms of frame_timestamp make the same transition
ControllerStateMachine_respond(state, type, status, frame_timestamp) ==
  LET n == respondToCommand_status_error("controller", state, 0, type,
                                         MessageStatus_into_u32(status))
      is_err == n.ok IN
  [native |-> n, result |-> IF is_err THEN Err(n.error) ELSE Ok]

\* DeviceStateMachine::respond: the BOOL of the native call is taken for
\* is_err; with Some(addr) the native call also records the address
DeviceStateMachine_respond(state, type, status, device_address) ==
  LET n == respondToCommand_status_error("device", state, 0, type,
                                         MessageStatus_into_u32(status))
      is_err == n.ok IN
  [native |-> n, result |-> IF is_err THEN Err(n.error) ELSE Ok]

\* ------------------------------------------------------------------------
\* State-machine operations
\* ------------------------------------------------------------------------
StateOf(m) ==
  IF m = "controller" THEN controllerState
  ELSE IF m = "port" THEN portState
  ELSE IF m = "device" THEN deviceState
  ELSE endpointState

Call(m, op, type, status, r) ==
  [machine |-> m, op |-> op, type |-> type, status |-> status,
   length |-> NULL, pre |-> StateOf(m), slot |-> currentTransfer,
   native |-> r.native.ok, result |-> r.result, value |-> NoMessage,
   prev |-> NoPrevious]

\* the device addresses a caller passes: None or Some(addr)
AddressValues == {NULL, 1}

\* The four machines are separate native objects that do not act on each
\* other: a run exercises the machine `alive`, handed over by the native
\* side in any of its states, next to three machines in their terminal state.
AliveOrTerminal(m, alive) == IF m = alive THEN States(m) ELSE {Terminal(m)}

InitCI ==
  /\ region = <<>> /\ recs = <<>> /\ cut = 0 /\ kind = "none"
  /\ descriptor_type = NULL /\ assoc_descriptor = NULL
  /\ interface_descriptor = NULL /\ current_descriptor = NULL
  /\ yielded = <<>> /\ calls = 0 /\ lastItem = NULL
  /\ \E m \in Machines :
       /\ controllerState \in AliveOrTerminal("controller", m)
       /\ portState \in AliveOrTerminal("port", m)
       /\ deviceState \in AliveOrTerminal("device", m)
       /\ endpointState \in AliveOrTerminal("endpoint", m)
  /\ deviceAddress = 0
  /\ endpointFailures = 0
  /\ ep_device_address = 1
  /\ ep_endpoint_address = 129
  /\ currentTransfer = NoMessage
  /\ held = NoMessage
  /\ last = NoCall
  /\ NoPort /\ NoBridge /\ NoPower /\ NoAux

ControllerInspect ==
  \E type \in CommandTypes :
    LET r == inspect_command("controller", controllerState, 0, type) IN
    /\ controllerState' = r.native.state
    /\ last' = Call("controller", "inspect_command", type, Success, r)
    /\ UNCHANGED <<portState, deviceState, deviceAddress, endpointState,
                   endpointFailures, ep_device_address, ep_endpoint_address,
                   currentTransfer, held>>
    /\ UNCHANGED <<walkVars, restVars>>

PortInspect ==
  \E type \in CommandTypes :
    LET r == inspect_command("port", portState, 0, type) IN
    /\ portState' = r.native.state
    /\ last' = Call("port", "inspect_command", type, Success, r)
    /\ UNCHANGED <<controllerState, deviceState, deviceAddress, endpointState,
                   endpointFailures, ep_device_address, ep_endpoint_address,
                   currentTransfer, held>>
    /\ UNCHANGED <<walkVars, restVars>>

DeviceInspect ==
  \E type \in CommandTypes :
    LET r == inspect_command("device", deviceState, 0, type) IN
    /\ deviceState' = r.native.state
    /\ last' = Call("device", "inspect_command", type, Success, r)
    /\ UNCHANGED <<controllerState, portState, deviceAddress, endpointState,
                   endpointFailures, ep_device_address, ep_endpoint_address,
                   currentTransfer, held>>
    /\ UNCHANGED <<walkVars, restVars>>

EndpointInspect ==
  \E type \in CommandTypes :
    LET r == inspect_command("endpoint", endpointState, endpointFailures,
                             type) IN
    /\ endpointState' = r.native.state
    /\ endpointFailures' = r.native.failures
    /\ last' = Call("endpoint", "inspect_command", type, Success, r)
    /\ UNCHANGED <<controllerState, portState, deviceState, deviceAddress,
                   ep_device_address, ep_endpoint_address, currentTransfer,
                   held>>
    /\ UNCHANGED <<walkVars, restVars>>

ControllerRespond ==
  \E type \in CommandTypes, status \in StatusValues,
     frame_timestamp \in {NULL, 1} :
    LET r == ControllerStateMachine_respond(controllerState, type, status,
                                            frame_timestamp) IN
    /\ controllerState' = r.native.state
    /\ last' = Call("controller", "respond", type, status, r)
    /\ UNCHANGED <<portState, deviceState, deviceAddress, endpointState,
                   endpointFailures, ep_device_address, ep_endpoint_address,
                   currentTransfer, held>>
    /\ UNCHANGED <<walkVars, restVars>>

PortRespond ==
  \E type \in CommandTypes, status \in StatusValues :
    LET r == PortStateMachine_respond(portState, type, status) IN
    /\ portState' = r.native.state
    /\ last' = Call("port", "respond", type, status, r)
    /\ UNCHANGED <<controllerState, deviceState, deviceAddress, endpointState,
                   endpointFailures, ep_device_address, ep_endpoint_address,
                   currentTransfer, held>>
    /\ UNCHANGED <<walkVars, restVars>>

DeviceRespond ==
  \E type \in CommandTypes, status \in StatusValues,
     device_address \in AddressValues :
    LET r == DeviceStateMachine_respond(deviceState, type, status,
                                        device_address) IN
    /\ deviceState' = r.native.state
    /\ deviceAddress' =
         IF r.native.ok /\ device_address # NULL
            /\ MessageStatus_into_u32(status) = 1
         THEN device_address ELSE deviceAddress
    /\ last' = Call("device", "respond", type, status, r)
    /\ UNCHANGED <<controllerState, portState, endpointState,
                   endpointFailures, ep_device_address, ep_endpoint_address,
                   currentTransfer, held>>
    /\ UNCHANGED <<walkVars, restVars>>

EndpointRespond ==
  \E type \in CommandTypes, status \in StatusValues :
    LET r == EndpointStateMachine_respond(endpointState, endpointFailures,
                                          type, status) IN
    /\ endpointState' = r.native.state
    /\ endpointFailures' = r.native.failures
    /\ last' = Call("endpoint", "respond", type, status, r)
    /\ UNCHANGED <<controllerState, portState, deviceState, deviceAddress,
                   ep_device_address, ep_endpoint_address, currentTransfer,
                   held>>
    /\ UNCHANGED <<walkVars, restVars>>

\* -[enqueueInterrupt:error:] and its count / expedite variants: the
\* interrupt reaches the channel or the channel fails
enqueueInterrupt_error(delivered) ==
  [ok |-> delivered, error |-> IF delivered THEN "none" ELSE "ChannelFailure"]

\* ControllerInterface::enqueue_interrupts: the BOOL of the native call is
\* taken for is_err; the four arms of (expedited, count) end the same way
ControllerInterface_enqueue_interrupts(delivered, expedited, count) ==
  LET n == enqueueInterrupt_error(delivered)
      is_err == n.ok IN
  [native |-> n, result |-> IF is_err THEN Err(n.error) ELSE Ok]

EnqueueInterrupts ==
  \E delivered \in BOOLEAN, expedited \in {NULL, 1}, count \in {NULL, 1} :
    LET r == ControllerInterface_enqueue_interrupts(delivered, expedited,
                                                    count) IN
    /\ last' = [machine |-> "interface", op |-> "enqueue_interrupts",
                type |-> NULL, status |-> Success, length |-> NULL,
                pre |-> NULL, slot |-> currentTransfer,
                native |-> r.native.ok, result |-> r.result,
                value |-> NoMessage, prev |-> NoPrevious]
    /\ UNCHANGED <<controllerState, portState, deviceState, deviceAddress,
                   endpointState, endpointFailures, ep_device_address,
                   ep_endpoint_address, currentTransfer, held>>
    /\ UNCHANGED <<walkVars, restVars>>

\* -[enqueueUpdatedFrame:timestamp:error:]: a frame update is sent on the
\* channel; the controller's state is not involved
enqueueUpdatedFrame_timestamp_error(delivered) ==
  [ok |-> delivered, error |-> IF delivered THEN "none" ELSE "ChannelFailure"]

\* ControllerStateMachine::enqueue_updated
ControllerStateMachine_enqueue_updated(delivered, frame, timestamp) ==
  LET n == enqueueUpdatedFrame_timestamp_error(delivered) IN
  [native |-> n, result |-> IF ~n.ok THEN Err(n.error) ELSE Ok]

EnqueueUpdated ==
  \E delivered \in BOOLEAN :
    LET r == ControllerStateMachine_enqueue_updated(delivered, 1, 1) IN
    /\ last' = [machine |-> "controller", op |-> "enqueue_updated",
                type |-> NULL, status |-> Success, length |-> NULL,
                pre |-> controllerState, slot |-> currentTransfer,
                native |-> r.native.ok, result |-> r.result,
                value |-> NoMessage, prev |-> NoPrevious]
    /\ UNCHANGED <<controllerState, portState, deviceState, deviceAddress,
                   endpointState, endpointFailures, ep_device_address,
                   ep_endpoint_address, currentTransfer, held>>
    /\ UNCHANGED <<walkVars, restVars>>

NextCI ==
  \/ EnqueueInterrupts
  \/ EnqueueUpdated
  \/ ControllerInspect
  \/ PortInspect
  \/ DeviceInspect
  \/ EndpointInspect
  \/ ControllerRespond
  \/ PortRespond
  \/ DeviceRespond
  \/ EndpointRespond

SpecCI == InitCI /\ [][NextCI]_vars


\* ------------------------------------------------------------------------
\* Endpoint transfers: doorbell, completion, pending-transfer slot
\* (native behaviour as specified in spec.md 4.4, 6 and 8)
\* ------------------------------------------------------------------------
\* Message { control: u32, data0: u32, data1: u64 }
Message(control, data0, data1) ==
  [control |-> control, data0 |-> data0, data1 |-> data1]

\* (word & mask) >> phase
Field(word, mask, phase) == Value(ShiftRight(BitAnd(word, mask), phase))

\* (value << phase) & mask
Packed(value, mask, phase) == BitAnd(ShiftLeft(Word(value), phase), mask)

\* the transfer a doorbell makes pending
TransferMessage == Message(Word(NormalTransfer), Word(0), 1)

\* -[capabilities]: a message a caller can hold without any transfer
CapabilitiesMessage == Message(Word(0), Word(0), 0)

\* the completion record of `message` for this endpoint
CompletionMessage(message, status, transfer_length) ==
  Message(
    BitOr(Word(TransferComplete),
      BitOr(Packed(status, TransferCompletionStatus,
                   TransferCompletionStatusPhase),
        BitOr(Packed(ep_device_address, TransferCompletionDeviceAddress,
                     TransferCompletionDeviceAddressPhase),
              Packed(ep_endpoint_address, TransferCompletionEndpointAddress,
                     TransferCompletionEndpointAddressPhase)))),
    Packed(transfer_length, TransferCompletionData0TransferLength,
           TransferCompletionData0TransferLengthPhase),
    message.data1)

\* outcome of a native endpoint call: BOOL, NSError, the slot afterwards
SlotOutcome(ok, error, slot) == [ok |-> ok, error |-> error, slot |-> slot]

\* -[processDoorbell:error:]
processDoorbell_error(doorbell) ==
  IF endpointState = EndpointDestroyed
  THEN SlotOutcome(FALSE, "InvalidObject", currentTransfer)
  ELSE IF \/ Field(doorbell, DoorbellDeviceAddress,
                   DoorbellDeviceAddressPhase) # ep_device_address
          \/ Field(doorbell, DoorbellEndpointAddress,
                   DoorbellEndpointAddressPhase) # ep_endpoint_address
  THEN SlotOutcome(FALSE, "BadArgument", currentTransfer)
  ELSE IF currentTransfer = NoMessage /\ endpointState = EndpointActive
  THEN SlotOutcome(TRUE, "none", TransferMessage)
  ELSE SlotOutcome(TRUE, "none", currentTransfer)

\* -[enqueueTransferCompletionForMessage:status:transferLength:error:]
enqueueTransferCompletionForMessage(message, status, transfer_length) ==
  IF endpointState = EndpointDestroyed
  THEN SlotOutcome(FALSE, "InvalidObject", currentTransfer)
  ELSE SlotOutcome(TRUE, "none",
                   CompletionMessage(message, status, transfer_length))

\* EndpointStateMachine::process_doorbell
EndpointStateMachine_process_doorbell(doorbell) ==
  LET n == processDoorbell_error(doorbell) IN
  [native |-> n, result |-> IF ~n.ok THEN Err(n.error) ELSE Ok]

\* mutant: the transfer length is not passed on
enqueue_transfer_completion_for_message_drops_length(message, status, transfer_length) ==
  LET n == enqueueTransferCompletionForMessage(
             message, MessageStatus_into_u32(status), 0) IN
  [native |-> n, result |-> IF ~n.ok THEN Err(n.error) ELSE Ok]

\* EndpointStateMachine::enqueue_transfer_completion_for_message
EndpointStateMachine_enqueue_transfer_completion_for_message(message, status, transfer_length) ==
  LET n == enqueueTransferCompletionForMessage(
             message, MessageStatus_into_u32(status), transfer_length) IN
  [native |-> n, result |-> IF ~n.ok THEN Err(n.error) ELSE Ok]

\* mutant: a null pointer is wrapped like any other
Message_new_null_as_some(ptr) ==
  IF ptr = NoMessage THEN CapabilitiesMessage ELSE ptr

\* Message::new: None for a null pointer
Message_new(ptr) == IF ptr = NoMessage THEN NoMessage ELSE ptr

\* EndpointStateMachine::current_transfer_message: the message in the slot,
\* which the retrieval empties
EndpointStateMachine_current_transfer_message ==
  [value |-> Message_new(currentTransfer), slot |-> NoMessage]

\* the transfer lengths a caller passes (u64): small ones, the largest the
\* 28-bit length field holds, and larger ones
TransferLengths == {5, 268435455, 268435461}

\* the doorbells rung: this endpoint's, and another device's
Doorbells == {U32(0, 129 * 256 + 1), U32(0, 129 * 256 + 2)}

\* the statuses a completion is enqueued with
CompletionStatuses == {Success, StallError}

\* the messages a caller can pass: the one it holds, or the capabilities
Messages == ({held} \ {NoMessage}) \cup {CapabilitiesMessage}

Previous ==
  [op |-> last.op, status |-> last.status, length |-> last.length,
   result |-> last.result]

\* the record of an endpoint transfer call: the state and the slot it
\* found; a retrieval also records the call it follows
XferCall(op, status, length, ok, result, value) ==
  [machine |-> "endpoint", op |-> op, type |-> NULL, status |-> status,
   length |-> length, pre |-> endpointState, slot |-> currentTransfer,
   native |-> ok, result |-> result, value |-> value,
   prev |-> IF op = "current_transfer_message" THEN Previous
            ELSE NoPrevious]

InitXfer ==
  /\ region = <<>> /\ recs = <<>> /\ cut = 0 /\ kind = "none"
  /\ descriptor_type = NULL /\ assoc_descriptor = NULL
  /\ interface_descriptor = NULL /\ current_descriptor = NULL
  /\ yielded = <<>> /\ calls = 0 /\ lastItem = NULL
  /\ controllerState = ControllerOff
  /\ portState = PortOff
  /\ deviceState = DeviceDestroyed
  /\ deviceAddress = 0
  /\ endpointState \in States("endpoint")
  /\ endpointFailures = 0
  /\ ep_device_address = 1
  /\ ep_endpoint_address = 129
  /\ currentTransfer = NoMessage
  /\ held = NoMessage
  /\ last = NoCall
  /\ NoPort /\ NoBridge /\ NoPower /\ NoAux

ProcessDoorbell ==
  \E doorbell \in Doorbells :
    LET r == EndpointStateMachine_process_doorbell(doorbell) IN
    /\ currentTransfer' = r.native.slot
    /\ last' = XferCall("process_doorbell", Success, NULL, r.native.ok,
                        r.result, NoMessage)
    /\ UNCHANGED <<controllerState, portState, deviceState, deviceAddress,
                   endpointState, endpointFailures, ep_device_address,
                   ep_endpoint_address, held>>
    /\ UNCHANGED <<walkVars, restVars>>

EnqueueTransferCompletionForMessage ==
  \E message \in Messages, status \in CompletionStatuses,
     transfer_length \in TransferLengths :
    LET r == EndpointStateMachine_enqueue_transfer_completion_for_message(
               message, status, transfer_length) IN
    /\ currentTransfer' = r.native.slot
    /\ last' = XferCall("enqueue_transfer_completion_for_message", status,
                        transfer_length, r.native.ok, r.result, NoMessage)
    /\ UNCHANGED <<controllerState, portState, deviceState, deviceAddress,
                   endpointState, endpointFailures, ep_device_address,
                   ep_endpoint_address, held>>
    /\ UNCHANGED <<walkVars, restVars>>

CurrentTransferMessage ==
  LET r == EndpointStateMachine_current_transfer_message IN
  /\ currentTransfer' = r.slot
  /\ held' = r.value
  /\ last' = XferCall("current_transfer_message", Success, NULL, TRUE, Ok,
                      r.value)
  /\ UNCHANGED <<controllerState, portState, deviceState, deviceAddress,
                 endpointState, endpointFailures, ep_device_address,
                 ep_endpoint_address>>
  /\ UNCHANGED <<walkVars, restVars>>

\* the endpoint commands answered while transfers are going on
EndpointCommands ==
  {EndpointCreate, EndpointDesroy, EndpointPause, EndpointRest}

\* EndpointStateMachine::respond between the transfer calls; the native
\* call leaves the pending-transfer slot alone
TransferRespond ==
  \E type \in EndpointCommands, status \in CompletionStatuses :
    LET r == EndpointStateMachine_respond(endpointState, endpointFailures,
                                          type, status) IN
    /\ endpointState' = r.native.state
    /\ endpointFailures' = r.native.failures
    /\ last' = Call("endpoint", "respond", type, status, r)
    /\ UNCHANGED <<controllerState, portState, deviceState, deviceAddress,
                   ep_device_address, ep_endpoint_address, currentTransfer,
                   held>>
    /\ UNCHANGED <<walkVars, restVars>>

NextXfer ==
  \/ TransferRespond
  \/ ProcessDoorbell
  \/ EnqueueTransferCompletionForMessage
  \/ CurrentTransferMessage

SpecXfer == InitXfer /\ [][NextXfer]_vars

\* ------------------------------------------------------------------------
\* Properties of the state machines
\* ------------------------------------------------------------------------
\* the call returned Err(..)
IsErr(result) == result \notin {Ok, Panic, "none"}

\* the status stands for success: Success, or Other carrying its code
DenotesSuccess(status) ==
  status.variant = "Success" \/ (status.variant = "Other" /\ status.value = 1)

\* C5: a respond call on a machine in its terminal state (Destroyed / Off)
\* returns an error and leaves the machine in the terminal state.
C5_TerminalAbsorbing ==
  (last.op = "respond" /\ last.pre = Terminal(last.machine)) =>
    /\ IsErr(last.result)
    /\ StateOf(last.machine) = Terminal(last.machine)

\* C6: a respond call for a Create command on an Active machine returns
\* IllegalTransition and leaves the state as it was.
C6_CreateWhileActive ==
  (/\ last.op = "respond"
   /\ last.type \in {ControllerPowerOn, PortPowerOn, DeviceCreate,
                     EndpointCreate}
   /\ CommandClass(last.machine, last.type) = "Create"
   /\ last.pre = Active(last.machine)) =>
    /\ last.result = "Err:IllegalTransition"
    /\ StateOf(last.machine) = last.pre

\* C7: a respond call with a success status for a command that is legal in
\* the current state leaves the machine in the command's post-condition
\* state: Create in Active, Destroy in Destroyed / Off, Pause in Paused
\* (Suspended for a port).
C7_SuccessTransition ==
  (last.op = "respond" /\ DenotesSuccess(last.status) /\ last.native) =>
    LET m == last.machine IN
    /\ last.type \in {ControllerPowerOn, PortPowerOn, DeviceCreate,
                      EndpointCreate} => StateOf(m) = Active(m)
    /\ last.type \in {ControllerPowerOff, PortPowerOff, DeviceDestroy,
                      EndpointDesroy} => StateOf(m) = Terminal(m)
    /\ last.type \in {ControllerPause, PortSuspend, DevicePause,
                      EndpointPause} => StateOf(m) = Paused(m)

\* C7 witness: a Create answered with Success took a machine that was not
\* Active to Active
C7_Witness ==
  /\ last.op = "respond" /\ last.status = Success /\ last.native
  /\ last.type = DeviceCreate
  /\ last.pre = DevicePaused
  /\ deviceState = DeviceActive

C9_InspectPure ==
  last.op = "inspect_command" =>
    /\ StateOf(last.machine) = last.pre
    /\ CommandClass(last.machine, last.type) = "Unknown" =>
         last.result = "Err:BadArgument"

\* C15: every respond call and every enqueue_interrupts call returns Ok
\* when the underlying native operation succeeded and Err when it failed.
C15_ErrorsReturned ==
  last.op \in {"respond", "enqueue_interrupts"} =>
    /\ last.native => last.result = Ok
    /\ ~last.native => IsErr(last.result)

\* the transfer length and status decoded from a completion message
DecodedTransferLength(message) ==
  Field(message.data0, TransferCompletionData0TransferLength,
        TransferCompletionData0TransferLengthPhase)

DecodedStatus(message) ==
  Field(message.control, TransferCompletionStatus,
        TransferCompletionStatusPhase)

\* current_transfer_message() was called right after a completion was
\* enqueued with status Success
RetrievedAfterEnqueue ==
  /\ last.op = "current_transfer_message"
  /\ last.prev.op = "enqueue_transfer_completion_for_message"
  /\ last.prev.result = Ok
  /\ last.prev.status = Success

InFlight == {currentTransfer} \ {NoMessage}

\* current_transfer_message() was called right after a doorbell of this
\* endpoint was accepted while the endpoint was Active
RetrievedAfterDoorbell ==
  /\ last.op = "current_transfer_message"
  /\ last.prev.op = "process_doorbell"
  /\ last.prev.result = Ok
  /\ last.pre = EndpointActive

MaxPolls == 3

\* the statuses the native side completes a request with
CompletionResults == {"success", "ioError"}

\* -[enqueueDeviceRequest:error:completionHandler:]: the request is either
\* refused at once, or taken and completed later through the handler
enqueueDeviceRequest_error_completionHandler(accepted, requests) ==
  IF accepted
  THEN [ok |-> TRUE, error |-> "none", requests |-> Append(requests, "pending")]
  ELSE [ok |-> FALSE, error |-> "ChannelFailure", requests |-> requests]

\* -[abortDeviceRequestsWithOption:error:]: every request the native side
\* holds will complete with an aborted status
abortDeviceRequestsWithOption_error(requests) ==
  [ok |-> TRUE, error |-> "none",
   requests |-> [i \in 1..Len(requests) |-> "aborted"]]

\* -[sendDeviceRequest:error:]
sendDeviceRequest_error(ok) ==
  [ok |-> ok, error |-> IF ok THEN "none" ELSE "ChannelFailure"]

\* Some(err.into())
Some(err) ==
  LET e == NSErr_into_UsbError(err) IN
  IF e = Panic THEN Panic ELSE "Some:" \o e

\* UsbDevice::send_device_request: if !native { Err(err.into()) } else { Ok }
UsbDevice_send_device_request(ok) ==
  LET n == sendDeviceRequest_error(ok) IN
  [native |-> n, result |-> IF ~n.ok THEN Err(n.error) ELSE Ok]

\* UsbDevice::abort_device_requests
UsbDevice_abort_device_requests(requests) ==
  LET n == abortDeviceRequestsWithOption_error(requests) IN
  [native |-> n, result |-> IF ~n.ok THEN Err(n.error) ELSE Ok]

\* the cb_handler closure of UsbDevice::enqueue_device_request:
\* if !native { Some(err.into()) } else { None }
enqueue_device_request_cb_handler(accepted, requests) ==
  LET n == enqueueDeviceRequest_error_completionHandler(accepted, requests) IN
  [native |-> n, result |-> IF ~n.ok THEN Some(n.error) ELSE "None"]

\* mutant: a finished bridge registers again instead of resolving
AsyncHandler_poll_match_never_ready(lock_poisoned, flag) ==
  IF lock_poisoned THEN Panic
  ELSE "register"

\* AsyncHandler::poll, the match on self.finished.lock().as_deref():
\* Ok(true) => Ready(Ok(())), Ok(false) => register and enqueue, _ => todo!()
AsyncHandler_poll_match(lock_poisoned, flag) ==
  IF lock_poisoned THEN Panic
  ELSE IF flag THEN "Ready(Ok)"
  ELSE "register"

\* AsyncHandler::poll, the Ok(false) arm after cb_handler returned:
\* if let Some(err) = .. { Ready(Err(err)) } else { Pending }
AsyncHandler_poll_registered(outcome) ==
  IF outcome = Panic THEN Panic
  ELSE IF outcome = "None" THEN "Pending"
  ELSE "Ready(Err)"

InitBridge ==
  /\ region = <<>> /\ recs = <<>> /\ cut = 0 /\ kind = "none"
  /\ descriptor_type = NULL /\ assoc_descriptor = NULL
  /\ interface_descriptor = NULL /\ current_descriptor = NULL
  /\ yielded = <<>> /\ calls = 0 /\ lastItem = NULL
  /\ NoMachines
  /\ NoPort /\ NoBridge /\ NoPower /\ NoAux

\* poll() takes the finished lock and matches on the flag; in the Ok(false)
\* arm it boxes a callback and stores it in handler. The guard of the
\* finished mutex is a temporary of the match scrutinee and lives to the
\* end of the match.
PollBegin ==
  /\ bridge = "alive"
  /\ pollPc = "idle"
  /\ polls < MaxPolls
  /\ finishedLock = "free"
  /\ polls' = polls + 1
  /\ LET arm == AsyncHandler_poll_match(poisoned, finished) IN
     IF arm = "register"
     THEN /\ finishedLock' = "poll"
          /\ handler' = handler + 1
          /\ pollPc' = "cb_handler"
          /\ UNCHANGED pollResult
     ELSE /\ pollResult' = arm
          /\ UNCHANGED <<finishedLock, handler, pollPc>>
  /\ UNCHANGED <<finished, poisoned, pollOutcome, enqueues, outstanding,
                 cbPc, cbStatus, fired, wakes, sync>>
  /\ UNCHANGED <<walkVars, ciVars, portVars, powerVars, auxVars>>

\* poll() calls (self.cb_handler)(self.dev, handler): the native enqueue
PollCallNative ==
  /\ pollPc = "cb_handler"
  /\ \E accepted \in BOOLEAN :
       LET r == enqueue_device_request_cb_handler(accepted, outstanding) IN
       /\ outstanding' = r.native.requests
       /\ pollOutcome' = r.result
  /\ enqueues' = enqueues + 1
  /\ pollPc' = "return"
  /\ UNCHANGED <<finished, finishedLock, poisoned, handler, pollResult,
                 polls, cbPc, cbStatus, fired, wakes, sync>>
  /\ UNCHANGED <<walkVars, ciVars, portVars, powerVars, auxVars>>

\* the native side runs the completion handler before its enqueue call
\* has returned, on the thread that made the call: finished.lock() in the
\* callback finds the mutex held by the poll() frame below it and does not
\* return
NativeCompleteInline ==
  /\ pollPc = "cb_handler"
  /\ enqueues' = enqueues + 1
  /\ pollPc' = "relock"
  /\ UNCHANGED <<finished, finishedLock, poisoned, handler, pollOutcome,
                 pollResult, polls, outstanding, cbPc, cbStatus, fired, wakes,
                 sync>>
  /\ UNCHANGED <<walkVars, ciVars, portVars, powerVars, auxVars>>

\* poll() returns from the Ok(false) arm and drops the guard; a panic
\* unwinding through the guard poisons the mutex
PollReturn ==
  /\ pollPc = "return"
  /\ pollResult' = AsyncHandler_poll_registered(pollOutcome)
  /\ poisoned' = (poisoned \/ pollOutcome = Panic)
  /\ finishedLock' = "free"
  /\ pollPc' = "idle"
  /\ pollOutcome' = "none"
  /\ UNCHANGED <<finished, handler, polls, enqueues, outstanding, cbPc,
                 cbStatus, fired, wakes, sync>>
  /\ UNCHANGED <<walkVars, ciVars, portVars, powerVars, auxVars>>

\* the native side completes its oldest request and invokes the handler
\* registered with it, on a thread of its own
NativeComplete ==
  /\ cbPc = "idle"
  /\ outstanding # <<>>
  /\ \E status \in CompletionResults :
       cbStatus' = IF Head(outstanding) = "aborted" THEN "aborted" ELSE status
  /\ outstanding' = Tail(outstanding)
  /\ cbPc' = "lock"
  /\ UNCHANGED <<finished, finishedLock, poisoned, handler, pollPc,
                 pollOutcome, pollResult, polls, enqueues, fired, wakes, sync>>
  /\ UNCHANGED <<walkVars, ciVars, portVars, powerVars, auxVars>>

\* gen_callback: finished.lock().unwrap() and *finished = true; unwrap()
\* panics on a poisoned mutex. The callback reaches the mutex through the
\* raw pointer it was made with: once the bridge is dropped the pointer
\* dangles, and the access either finds the old bytes or faults.
CallbackSet ==
  /\ cbPc = "lock"
  /\ finishedLock = "free"
  /\ \/ /\ poisoned
        /\ cbPc' = "idle"
        /\ fired' = Append(fired, Panic)
        /\ UNCHANGED <<finished, finishedLock>>
     \/ /\ ~poisoned
        /\ finishedLock' = "callback"
        /\ finished' = TRUE
        /\ cbPc' = "wake"
        /\ UNCHANGED fired
     \/ /\ bridge = "dropped"
        /\ cbPc' = "idle"
        /\ fired' = Append(fired, "fault")
        /\ UNCHANGED <<finished, finishedLock>>
  /\ UNCHANGED <<poisoned, handler, pollPc, pollOutcome, pollResult, polls,
                 enqueues, outstanding, cbStatus, wakes, sync>>
  /\ UNCHANGED <<walkVars, ciVars, portVars, powerVars, auxVars>>

\* gen_callback: waker.wake(); the guard is still alive
CallbackWake ==
  /\ cbPc = "wake"
  /\ wakes' = wakes + 1
  /\ cbPc' = "drop"
  /\ UNCHANGED <<finished, finishedLock, poisoned, handler, pollPc,
                 pollOutcome, pollResult, polls, enqueues, outstanding,
                 cbStatus, fired, sync>>
  /\ UNCHANGED <<walkVars, ciVars, portVars, powerVars, auxVars>>

\* gen_callback: the closure ends and the guard is dropped
CallbackReturn ==
  /\ cbPc = "drop"
  /\ finishedLock' = "free"
  /\ fired' = Append(fired, cbStatus)
  /\ cbPc' = "idle"
  /\ UNCHANGED <<finished, poisoned, handler, pollPc, pollOutcome,
                 pollResult, polls, enqueues, outstanding, cbStatus, wakes,
                 sync>>
  /\ UNCHANGED <<walkVars, ciVars, portVars, powerVars, auxVars>>

\* the record of a synchronous request
SyncCall(op, r) == [op |-> op, native |-> r.native.ok, result |-> r.result]

\* UsbDevice::send_device_request, from the thread that drives poll()
SendDeviceRequest ==
  /\ pollPc = "idle"
  /\ \E ok \in BOOLEAN :
       sync' = SyncCall("send_device_request",
                        UsbDevice_send_device_request(ok))
  /\ UNCHANGED <<finished, finishedLock, poisoned, handler, pollPc,
                 pollOutcome, pollResult, polls, enqueues, outstanding, cbPc,
                 cbStatus, fired, wakes>>
  /\ UNCHANGED <<walkVars, ciVars, portVars, powerVars, auxVars>>

\* UsbDevice::abort_device_requests while a request is outstanding
AbortDeviceRequests ==
  /\ pollPc = "idle"
  /\ outstanding # <<>>
  /\ LET r == UsbDevice_abort_device_requests(outstanding) IN
     /\ outstanding' = r.native.requests
     /\ sync' = SyncCall("abort_device_requests", r)
  /\ UNCHANGED <<finished, finishedLock, poisoned, handler, pollPc,
                 pollOutcome, pollResult, polls, enqueues, cbPc, cbStatus,
                 fired, wakes>>
  /\ UNCHANGED <<walkVars, ciVars, portVars, powerVars, auxVars>>

\* the future that owns the bridge is dropped (the caller stops awaiting,
\* or the await has finished): AsyncHandler has no Drop impl, its fields
\* are freed, and the boxed callback, leaked by Box::into_raw, and the
\* request the native side holds are left as they are
DropBridge ==
  /\ bridge = "alive"
  /\ pollPc = "idle"
  /\ polls > 0
  /\ bridge' = "dropped"
  /\ UNCHANGED <<walkVars, ciVars, portVars, bridgeVars, powerVars, fieldVars,
                 capVars, stepVars>>

NextBridge ==
  \/ DropBridge
  \/ PollBegin
  \/ PollCallNative
  \/ NativeCompleteInline
  \/ PollReturn
  \/ NativeComplete
  \/ CallbackSet
  \/ CallbackWake
  \/ CallbackReturn
  \/ SendDeviceRequest
  \/ AbortDeviceRequests

SpecBridge == InitBridge /\ [][NextBridge]_vars

\* the task awaiting the bridge is polled when it is first run, after each
\* wake-up, and at most once more without one (a wake-up meant for a
\* sibling future of the same task); it is not dropped
TaskPoll ==
  /\ polls <= wakes + 1
  /\ PollBegin

NextBridgeFair ==
  \/ TaskPoll
  \/ PollCallNative
  \/ NativeCompleteInline
  \/ PollReturn
  \/ NativeComplete
  \/ CallbackSet
  \/ CallbackWake
  \/ CallbackReturn
  \/ SendDeviceRequest
  \/ AbortDeviceRequests

\* every thread that can take its next step takes it in the end: the
\* executor runs a runnable task, a call that can return returns, the
\* native side completes a request it holds
SpecBridgeFair ==
  /\ InitBridge
  /\ [][NextBridgeFair]_vars
  /\ WF_vars(TaskPoll)
  /\ WF_vars(PollCallNative \/ NativeCompleteInline)
  /\ WF_vars(PollReturn)
  /\ WF_vars(NativeComplete)
  /\ WF_vars(CallbackSet)
  /\ WF_vars(CallbackWake)
  /\ WF_vars(CallbackReturn)

\* ------------------------------------------------------------------------
\* Properties of the completion bridge
\* ------------------------------------------------------------------------
\* C12: a poll made before the native callback has fired, on a request the
\* native side took, returns pending; a poll made after the callback has
\* set the flag resolves with success; once resolved, no further poll
\* changes the result.
C12_SingleResolution ==
  [][/\ (pollPc = "return" /\ pollPc' = "idle" /\ pollOutcome = "None"
         /\ ~finished) => pollResult' = "Pending"
     /\ (pollPc = "idle" /\ polls' = polls + 1 /\ finished) =>
          pollResult' = "Ready(Ok)"
     /\ pollResult = "Ready(Ok)" => pollResult' = "Ready(Ok)"]_vars

\* C12 witness: the first poll registered and returned pending, the callback
\* fired once, the second poll resolved and the third changed nothing
C12_Witness ==
  /\ polls = 3
  /\ enqueues = 1
  /\ wakes = 1
  /\ fired = <<"success">>
  /\ pollResult = "Ready(Ok)"

\* C13: over any sequence of polls of one bridge the native enqueue
\* operation is invoked at most once and at most one callback is registered.
C13_OneEnqueue ==
  /\ enqueues <= 1
  /\ handler <= 1

\* C14: the bridge resolves with success only when every completion the
\* native side delivered carried no error; a request completed with an
\* error status (aborted) does not resolve with success.
C14_ErrorResolves ==
  pollResult = "Ready(Ok)" =>
    \A i \in 1..Len(fired) : fired[i] = "success"

\* C16: a synchronous request whose native call fails returns an error
\* value, and no request-issuing call, synchronous or polled, ends in a
\* panic.
C16_NoPanic ==
  /\ sync.result # Panic
  /\ ~sync.native => IsErr(sync.result)
  /\ pollResult # Panic

\* C20: the lock of the completion flag is not held while poll() is inside
\* the native enqueue call, nor while the callback invokes the waker.
C20_LockScope ==
  /\ pollPc = "cb_handler" => finishedLock # "poll"
  /\ cbPc = "wake" => finishedLock # "callback"

\* ------------------------------------------------------------------------
\* Configuration power (native table as specified in spec.md 3 and 8)
\* ------------------------------------------------------------------------
\* a value of a #[repr(u32)] enum with an Other(u32) variant
Variant(variant, value) == [variant |-> variant, value |-> value]

\* enum DeviceSpeed
DeviceSpeeds ==
  {Variant("None", 0), Variant("Full", 0), Variant("Low", 0),
   Variant("High", 0), Variant("Super", 0), Variant("SuperPlus", 0),
   Variant("SuperPlusBy2", 0), Variant("Other", 7)}

\* mutant: High and Super exchanged
DeviceSpeed_into_u32_high_as_super(device_speed) ==
  CASE device_speed.variant = "None" -> 0
    [] device_speed.variant = "Full" -> 1
    [] device_speed.variant = "Low" -> 2
    [] device_speed.variant = "High" -> 4
    [] device_speed.variant = "Super" -> 3
    [] device_speed.variant = "SuperPlus" -> 5
    [] device_speed.variant = "SuperPlusBy2" -> 6
    [] OTHER -> device_speed.value

\* impl From<DeviceSpeed> for u32
DeviceSpeed_into_u32(device_speed) ==
  CASE device_speed.variant = "None" -> 0
    [] device_speed.variant = "Full" -> 1
    [] device_speed.variant = "Low" -> 2
    [] device_speed.variant = "High" -> 3
    [] device_speed.variant = "Super" -> 4
    [] device_speed.variant = "SuperPlus" -> 5
    [] device_speed.variant = "SuperPlusBy2" -> 6
    [] OTHER -> device_speed.value

\* impl From<u32> for DeviceSpeed
DeviceSpeed_from_u32(num) ==
  CASE num = 0 -> Variant("None", 0)
    [] num = 1 -> Variant("Full", 0)
    [] num = 2 -> Variant("Low", 0)
    [] num = 3 -> Variant("High", 0)
    [] num = 4 -> Variant("Super", 0)
    [] num = 5 -> Variant("SuperPlus", 0)
    [] num = 6 -> Variant("SuperPlusBy2", 0)
    [] OTHER -> Variant("Other", num)

\* the MaxPower bytes of a configuration descriptor
MaxPowerValues == 0..255

\* milliamps per MaxPower unit at a speed code: 8 for the SuperSpeed class,
\* 2 for USB 2.0 speeds (and for codes the table does not name)
MilliAmpsPerUnit(usbDeviceSpeed) ==
  IF usbDeviceSpeed \in {4, 5, 6} THEN 8 ELSE 2

\* IOUSBGetConfigurationMaxPowerMilliAmps(usbDeviceSpeed, descriptor); the
\* product of a byte and the unit is far below 2^32
IOUSBGetConfigurationMaxPowerMilliAmps(usbDeviceSpeed, descriptor_MaxPower) ==
  descriptor_MaxPower * MilliAmpsPerUnit(usbDeviceSpeed)

\* ConfigurationDescriptor::max_power_milliamps
ConfigurationDescriptor_max_power_milliamps(speed_code) ==
  IOUSBGetConfigurationMaxPowerMilliAmps(speed_code, MaxPower)

InitPower ==
  /\ region = <<>> /\ recs = <<>> /\ cut = 0 /\ kind = "none"
  /\ descriptor_type = NULL /\ assoc_descriptor = NULL
  /\ interface_descriptor = NULL /\ current_descriptor = NULL
  /\ yielded = <<>> /\ calls = 0 /\ lastItem = NULL
  /\ NoMachines
  /\ NoPort /\ NoBridge /\ NoAux
  /\ MaxPower \in MaxPowerValues
  /\ usb_device_speed \in DeviceSpeeds
  /\ milliamps = NULL

\* descriptor.max_power_milliamps(speed.into())
MaxPowerMilliamps ==
  /\ milliamps = NULL
  /\ milliamps' = ConfigurationDescriptor_max_power_milliamps(
                    DeviceSpeed_into_u32(usb_device_speed))
  /\ UNCHANGED <<MaxPower, usb_device_speed>>
  /\ UNCHANGED <<walkVars, ciVars, portVars, bridgeVars, auxVars>>

NextPower == MaxPowerMilliamps

SpecPower == InitPower /\ [][NextPower]_vars

\* C17: for every MaxPower byte m, max_power_milliamps returns 8 * m at the
\* SuperSpeed-class speeds (Super, SuperPlus, SuperPlusBy2) and 2 * m at the
\* USB 2.0 speeds (Low, Full, High): 50 gives 400 at Super and 100 at High.
C17_MaxPowerMilliamps ==
  milliamps # NULL =>
    /\ usb_device_speed.variant \in {"Super", "SuperPlus", "SuperPlusBy2"} =>
         milliamps = 8 * MaxPower
    /\ usb_device_speed.variant \in {"Low", "Full", "High"} =>
         milliamps = 2 * MaxPower
    /\ (MaxPower = 50 /\ usb_device_speed.variant = "Super") => milliamps = 400
    /\ (MaxPower = 50 /\ usb_device_speed.variant = "High") => milliamps = 100

\* C17 witness: MaxPower = 50 at Super speed gave 400 mA
C17_Witness ==
  /\ MaxPower = 50
  /\ usb_device_speed = Variant("Super", 0)
  /\ milliamps = 400

\* ------------------------------------------------------------------------
\* Raw status of the port state machine
\* (native behaviour as specified in spec.md 3 and 4.4)
\* ------------------------------------------------------------------------
\* the link states and speeds a caller passes to update_link_state
LinkStates ==
  {Variant("U0", 0), Variant("U3", 0), Variant("Resume", 0),
   Variant("Other", 3)}

LinkSpeeds == {Variant("High", 0), Variant("Super", 0)}

\* mutant: U3 is sent as U2
LinkState_into_u32_u3_as_u2(state) ==
  CASE state.variant = "U0" -> 0
    [] state.variant = "U1" -> 1
    [] state.variant = "U2" -> 2
    [] state.variant = "U3" -> 2
    [] state.variant = "Disabled" -> 4
    [] state.variant = "RxDetect" -> 5
    [] state.variant = "Inactive" -> 6
    [] state.variant = "Polling" -> 7
    [] state.variant = "Recovery" -> 8
    [] state.variant = "Reset" -> 9
    [] state.variant = "Compliance" -> 10
    [] state.variant = "Test" -> 11
    [] state.variant = "Resume" -> 15
    [] OTHER -> state.value

\* impl From<LinkState> for u32
LinkState_into_u32(state) ==
  CASE state.variant = "U0" -> 0
    [] state.variant = "U1" -> 1
    [] state.variant = "U2" -> 2
    [] state.variant = "U3" -> 3
    [] state.variant = "Disabled" -> 4
    [] state.variant = "RxDetect" -> 5
    [] state.variant = "Inactive" -> 6
    [] state.variant = "Polling" -> 7
    [] state.variant = "Recovery" -> 8
    [] state.variant = "Reset" -> 9
    [] state.variant = "Compliance" -> 10
    [] state.variant = "Test" -> 11
    [] state.variant = "Resume" -> 15
    [] OTHER -> state.value

\* impl From<u32> for LinkState
LinkState_from_u32(num) ==
  CASE num = 0 -> Variant("U0", 0)
    [] num = 1 -> Variant("U1", 0)
    [] num = 2 -> Variant("U2", 0)
    [] num = 3 -> Variant("U3", 0)
    [] num = 4 -> Variant("Disabled", 0)
    [] num = 5 -> Variant("RxDetect", 0)
    [] num = 6 -> Variant("Inactive", 0)
    [] num = 7 -> Variant("Polling", 0)
    [] num = 8 -> Variant("Recovery", 0)
    [] num = 9 -> Variant("Reset", 0)
    [] num = 10 -> Variant("Compliance", 0)
    [] num = 11 -> Variant("Test", 0)
    [] num = 15 -> Variant("Resume", 0)
    [] OTHER -> Variant("Other", num)

\* impl From<u32> for PortState
PortState_from_u32(num) ==
  CASE num = 0 -> Variant("Off", 0)
    [] num = 1 -> Variant("Powered", 0)
    [] num = 2 -> Variant("Suspended", 0)
    [] num = 3 -> Variant("Active", 0)
    [] OTHER -> Variant("Other", num)

\* the link is down: U3, Disabled, RxDetect or Inactive
LinkDown(link) == link \in {3, 4, 5, 6}

\* the coarse port state recomputed from a new link state: an Active port
\* whose link went down is Suspended
RecomputedPortState(state, link) ==
  IF state = PortActive /\ LinkDown(link) THEN PortSuspended ELSE state

\* -[updateLinkState:speed:inhibitLinkStateChange:error:]
updateLinkState_speed_inhibitLinkStateChange_error(state, link, speed_code, inhibit) ==
  [ok |-> TRUE, error |-> "none",
   state |-> IF inhibit THEN state ELSE RecomputedPortState(state, link),
   linkState |-> link, speed |-> speed_code]

\* mutant: the inhibit flag is not passed on
PortStateMachine_update_link_state_never_inhibits(state, link_state, device_speed, inhibit_link_state_change) ==
  LET n == updateLinkState_speed_inhibitLinkStateChange_error(
             state, LinkState_into_u32(link_state),
             DeviceSpeed_into_u32(device_speed), FALSE) IN
  [native |-> n, result |-> IF ~n.ok THEN Err(n.error) ELSE Ok]

\* PortStateMachine::update_link_state
PortStateMachine_update_link_state(state, link_state, device_speed, inhibit_link_state_change) ==
  LET n == updateLinkState_speed_inhibitLinkStateChange_error(
             state, LinkState_into_u32(link_state),
             DeviceSpeed_into_u32(device_speed), inhibit_link_state_change) IN
  [native |-> n, result |-> IF ~n.ok THEN Err(n.error) ELSE Ok]

\* PortStateMachine::port_state, link_state, speed
PortStateMachine_port_state == PortState_from_u32(portState)

PortStateMachine_link_state == LinkState_from_u32(linkState)

PortStateMachine_speed == DeviceSpeed_from_u32(speed)

\* PortStateMachine::powered, connected, overcurrent
PortStateMachine_powered == powered

PortStateMachine_connected == connected

PortStateMachine_overcurrent == overcurrent

\* the raw status a port call found
RawStatus ==
  [linkState |-> linkState, speed |-> speed, powered |-> powered,
   connected |-> connected, overcurrent |-> overcurrent]

\* the record of a call on the raw port status
PortCall(op, link_state, device_speed, flag, ok, result) ==
  [machine |-> "port", op |-> op, type |-> NULL, status |-> Success,
   length |-> NULL, pre |-> portState, slot |-> currentTransfer,
   native |-> ok, result |-> result, value |-> NoMessage,
   prev |-> NoPrevious, new_link_state |-> link_state,
   device_speed |-> device_speed, flag |-> flag, before |-> RawStatus]

\* -[setPowered:], -[setConnected:], -[setOvercurrent:]: each stores its
\* flag in the raw status and nothing else
setPowered(raw, v) == [raw EXCEPT !.powered = v]
setConnected(raw, v) == [raw EXCEPT !.connected = v]
setOvercurrent(raw, v) == [raw EXCEPT !.overcurrent = v]

\* PortStateMachine::set_powered
PortStateMachine_set_powered(raw, v) == setPowered(raw, v)

\* mutant: set_connected stores its argument as the powered flag
PortStateMachine_set_connected_as_powered(raw, v) == setPowered(raw, v)

\* PortStateMachine::set_connected
PortStateMachine_set_connected(raw, v) == setConnected(raw, v)

\* PortStateMachine::set_overcurrent
PortStateMachine_set_overcurrent(raw, v) == setOvercurrent(raw, v)

\* the raw status after a call that returned `raw`
RawStatusBecomes(raw) ==
  /\ linkState' = raw.linkState
  /\ speed' = raw.speed
  /\ powered' = raw.powered
  /\ connected' = raw.connected
  /\ overcurrent' = raw.overcurrent

InitPort ==
  /\ region = <<>> /\ recs = <<>> /\ cut = 0 /\ kind = "none"
  /\ descriptor_type = NULL /\ assoc_descriptor = NULL
  /\ interface_descriptor = NULL /\ current_descriptor = NULL
  /\ yielded = <<>> /\ calls = 0 /\ lastItem = NULL
  /\ controllerState = ControllerOff
  /\ portState \in States("port")
  /\ deviceState = DeviceDestroyed
  /\ deviceAddress = 0
  /\ endpointState = EndpointDestroyed
  /\ endpointFailures = 0
  /\ ep_device_address = 0
  /\ ep_endpoint_address = 0
  /\ currentTransfer = NoMessage
  /\ held = NoMessage
  /\ last = NoCall
  /\ NoPort /\ NoBridge /\ NoPower /\ NoAux

UpdateLinkState ==
  \E link_state \in LinkStates, device_speed \in LinkSpeeds,
     inhibit \in BOOLEAN :
    LET r == PortStateMachine_update_link_state(portState, link_state,
                                                device_speed, inhibit) IN
    /\ portState' = r.native.state
    /\ linkState' = r.native.linkState
    /\ speed' = r.native.speed
    /\ last' = PortCall("update_link_state", link_state, device_speed,
                        inhibit, r.native.ok, r.result)
    /\ UNCHANGED <<powered, connected, overcurrent>>
    /\ UNCHANGED <<controllerState, deviceState, deviceAddress, endpointState,
                   endpointFailures, ep_device_address, ep_endpoint_address,
                   currentTransfer, held>>
    /\ UNCHANGED <<walkVars, bridgeVars, powerVars, auxVars>>

\* PortStateMachine::set_powered: -[setPowered:]
SetPowered ==
  \E v \in BOOLEAN :
    /\ RawStatusBecomes(PortStateMachine_set_powered(RawStatus, v))
    /\ last' = PortCall("set_powered", Variant("U0", 0), Variant("None", 0),
                        v, TRUE, Ok)
    /\ UNCHANGED <<controllerState, portState, deviceState, deviceAddress,
                   endpointState, endpointFailures, ep_device_address,
                   ep_endpoint_address, currentTransfer, held>>
    /\ UNCHANGED <<walkVars, bridgeVars, powerVars, auxVars>>

\* PortStateMachine::set_connected: -[setConnected:]
SetConnected ==
  \E v \in BOOLEAN :
    /\ RawStatusBecomes(PortStateMachine_set_connected(RawStatus, v))
    /\ last' = PortCall("set_connected", Variant("U0", 0), Variant("None", 0),
                        v, TRUE, Ok)
    /\ UNCHANGED <<controllerState, portState, deviceState, deviceAddress,
                   endpointState, endpointFailures, ep_device_address,
                   ep_endpoint_address, currentTransfer, held>>
    /\ UNCHANGED <<walkVars, bridgeVars, powerVars, auxVars>>

\* PortStateMachine::set_overcurrent: -[setOvercurrent:]
SetOvercurrent ==
  \E v \in BOOLEAN :
    /\ RawStatusBecomes(PortStateMachine_set_overcurrent(RawStatus, v))
    /\ last' = PortCall("set_overcurrent", Variant("U0", 0),
                        Variant("None", 0), v, TRUE, Ok)
    /\ UNCHANGED <<controllerState, portState, deviceState, deviceAddress,
                   endpointState, endpointFailures, ep_device_address,
                   ep_endpoint_address, currentTransfer, held>>
    /\ UNCHANGED <<walkVars, bridgeVars, powerVars, auxVars>>

\* the port's commands next to the calls on its raw status
NextPort ==
  \/ PortInspect
  \/ PortRespond
  \/ UpdateLinkState
  \/ SetPowered
  \/ SetConnected
  \/ SetOvercurrent

SpecPort == InitPort /\ [][NextPort]_vars

\* ------------------------------------------------------------------------
\* Properties of the port's raw status and of the coarse states
\* ------------------------------------------------------------------------
\* C18: update_link_state(new_link_state, speed, inhibit) sets the link
\* state field to new_link_state; with inhibit the coarse port state is the
\* one before the call, without it the coarse state is the one recomputed
\* from the new link state.
C18_UpdateLinkState ==
  last.op = "update_link_state" =>
    /\ \/ PortStateMachine_link_state = last.new_link_state
       \/ /\ last.new_link_state.variant = "Other"
          /\ linkState = last.new_link_state.value
    /\ last.flag => portState = last.pre
    /\ ~last.flag => portState = RecomputedPortState(last.pre, linkState)

\* C18 witness: an Active port lost its link (U3) without inhibit, reads
\* back U3 and is Suspended
C18_Witness ==
  /\ last.op = "update_link_state"
  /\ ~last.flag
  /\ last.pre = PortActive
  /\ last.new_link_state = Variant("U3", 0)
  /\ PortStateMachine_link_state = Variant("U3", 0)
  /\ PortStateMachine_port_state = Variant("Suspended", 0)

\* the coarse states of the four machines
CoarseStates == <<controllerState, portState, deviceState, endpointState>>

C21_SuspendResumeOnce ==
  [][/\ (pollPc = "return" /\ pollPc' = "idle" /\ pollResult = "Pending") =>
          pollResult' # "Pending"
     /\ wakes' <= 1
     /\ cbPc' # cbPc =>
          UNCHANGED <<poisoned, handler, pollPc, pollOutcome, pollResult,
                      polls, enqueues, sync>>]_vars

\* ------------------------------------------------------------------------
\* Bit fields of the doorbell, command and transfer-completion words
\* ------------------------------------------------------------------------
\* MessageCommand, lib.rs 3980-3989 (Data0DeviceAddress and
\* Data0EndpointAddress have no phase constant of their own)
MessageCommand ==
  [ControlStatus |-> U32(0, 3840), StatusPhase |-> 8,
   Data0RootPort |-> U32(0, 15), RootPortPhase |-> 0,
   Data0DeviceAddress |-> U32(0, 255),
   Data0EndpointAddress |-> U32(0, 65280),
   Data0StreamId |-> U32(65535, 0), Data0StreamIdPhase |-> 16]

\* a field of a word: its mask and its phase
BitField(mask, phase) == [mask |-> mask, phase |-> phase]

\* the (mask, phase) pairs the enums give for each word
WordFields ==
  [doorbell |->
     <<BitField(DoorbellDeviceAddress, DoorbellDeviceAddressPhase),
       BitField(DoorbellEndpointAddress, DoorbellEndpointAddressPhase),
       BitField(DoorbellStreamId, DoorbellStreamIDPhase)>>,
   completion_control |->
     <<BitField(TransferCompletionStatus, TransferCompletionStatusPhase),
       BitField(TransferCompletionDeviceAddress,
                TransferCompletionDeviceAddressPhase),
       BitField(TransferCompletionEndpointAddress,
                TransferCompletionEndpointAddressPhase)>>,
   completion_data0 |->
     <<BitField(TransferCompletionData0TransferLength,
                TransferCompletionData0TransferLengthPhase)>>,
   command_control |->
     <<BitField(MessageCommand.ControlStatus, MessageCommand.StatusPhase)>>,
   command_data0 |->
     <<BitField(MessageCommand.Data0RootPort, MessageCommand.RootPortPhase),
       BitField(MessageCommand.Data0StreamId,
                MessageCommand.Data0StreamIdPhase)>>]

WordLayouts == DOMAIN WordFields

\* the largest value a field holds: mask >> phase
FieldMax(f) == Value(ShiftRight(f.mask, f.phase))

\* the values tried for a field: both ends of its range and their
\* neighbours
FieldValues(f) == {0, 1, FieldMax(f) - 1, FieldMax(f)}

\* value_1 << phase_1 & mask_1 | value_2 << phase_2 & mask_2 | ...
RECURSIVE PackFields(_, _)
PackFields(fields, field_values) ==
  IF fields = <<>> THEN Word(0)
  ELSE BitOr(Packed(Head(field_values), Head(fields).mask,
                    Head(fields).phase),
             PackFields(Tail(fields), Tail(field_values)))

\* (word & mask) >> phase of each field
UnpackFields(fields, packed) ==
  [i \in 1..Len(fields) |-> Field(packed, fields[i].mask, fields[i].phase)]

InitFields ==
  /\ NoWalk /\ NoMachines /\ NoPort /\ NoBridge /\ NoPower /\ NoAux

\* every choice of one tried value per field
RECURSIVE FieldValueSeqs(_)
FieldValueSeqs(fields) ==
  IF fields = <<>> THEN {<<>>}
  ELSE {<<v>> \o rest : v \in FieldValues(Head(fields)),
                        rest \in FieldValueSeqs(Tail(fields))}

\* a word of one layout is packed from a value for each of its fields
PackWord ==
  /\ \E layout \in WordLayouts :
       \E field_values \in FieldValueSeqs(WordFields[layout]) :
         /\ packedLayout' = layout
         /\ packedValues' = field_values
         /\ packedWord' = PackFields(WordFields[layout], field_values)
  /\ unpackedValues' = <<>>
  /\ UNCHANGED <<walkVars, ciVars, portVars, bridgeVars, powerVars, capVars,
                 lifeVars, stepVars>>

\* the fields of the packed word are read back
UnpackWord ==
  /\ packedLayout # "none"
  /\ unpackedValues = <<>>
  /\ unpackedValues' = UnpackFields(WordFields[packedLayout], packedWord)
  /\ UNCHANGED <<packedLayout, packedValues, packedWord>>
  /\ UNCHANGED <<walkVars, ciVars, portVars, bridgeVars, powerVars, capVars,
                 lifeVars, stepVars>>

NextFields ==
  \/ PackWord
  \/ UnpackWord

SpecFields == InitFields /\ [][NextFields]_vars

\* the bits lo..hi of a 16-bit half (none when lo > hi)
HalfBits(lo, hi) == IF lo > hi THEN 0 ELSE 2^(hi + 1) - 2^lo

\* the word with exactly the bits lo..hi set
Bits(lo, hi) ==
  U32(HalfBits((IF lo > 16 THEN lo ELSE 16) - 16, hi - 16),
      HalfBits(lo, IF hi < 15 THEN hi ELSE 15))

\* the bit positions the fields of the doorbell and completion words
\* are stated to take
StatedBits ==
  [doorbell |-> <<<<0, 7>>, <<8, 15>>, <<16, 31>>>>,
   completion_control |-> <<<<8, 11>>, <<16, 23>>, <<24, 31>>>>,
   completion_data0 |-> <<<<0, 27>>>>]

EndpointDescriptorValues ==
  [wMaxPacketSize : {512, 1024, 3072, 5120}, bmAttributes : {1, 2}]

\* a companion descriptor that is not present: the zero-filled member
AbsentCompanion == [bLength |-> 0, bMaxBurst |-> 0, bmAttributes |-> 0]

\* IOUSBSuperSpeedEndpointCompanionDescriptor
SuperSpeedCompanionValues ==
  {AbsentCompanion, [bLength |-> 6, bMaxBurst |-> 3, bmAttributes |-> 2]}

\* IOUSBSuperSpeedPlusIsochronousEndpointCompanionDescriptor
SuperSpeedPlusCompanionValues ==
  {AbsentCompanion, [bLength |-> 8, bMaxBurst |-> 0, bmAttributes |-> 0]}

\* the speed codes of the SuperSpeed class
SuperSpeedCodes ==
  {DeviceSpeed_into_u32(Variant(v, 0)) :
     v \in {"Super", "SuperPlus", "SuperPlusBy2"}}

\* IOUSBGetEndpointBurstSize: from the companion at SuperSpeed, from bits
\* 11-12 of wMaxPacketSize at high speed
IOUSBGetEndpointBurstSize(usbDeviceSpeed, descriptor, companionDescriptor, sspCompanionDescriptor) ==
  IF usbDeviceSpeed \in SuperSpeedCodes
  THEN companionDescriptor.bMaxBurst + 1
  ELSE IF usbDeviceSpeed = DeviceSpeed_into_u32(Variant("High", 0))
  THEN ((descriptor.wMaxPacketSize \div 2048) % 4) + 1
  ELSE 1

\* IOUSBGetEndpointMult: from the companion of an isochronous endpoint at
\* SuperSpeed, 1 below
IOUSBGetEndpointMult(usbDeviceSpeed, descriptor, companionDescriptor, sspCompanionDescriptor) ==
  IF usbDeviceSpeed \in SuperSpeedCodes /\ descriptor.bmAttributes % 4 = 1
  THEN (companionDescriptor.bmAttributes % 4) + 1
  ELSE 1

\* IOUSBGetEndpointMaxStreams: from the companion of a bulk endpoint at
\* SuperSpeed, no streams below
IOUSBGetEndpointMaxStreams(usbDeviceSpeed, descriptor, companionDescriptor) ==
  IF /\ usbDeviceSpeed \in SuperSpeedCodes
     /\ descriptor.bmAttributes % 4 = 2
     /\ companionDescriptor.bmAttributes % 32 > 0
  THEN 2^(companionDescriptor.bmAttributes % 32)
  ELSE 0

\* let ptr = &unsafe { self.inner.as_ref().<member> }; <View>::new(ptr):
\* the block copies the member into a temporary of the accessor, and the
\* view keeps the address of that temporary after the accessor returned
IoSourceDescriptor_endpoint_descriptor == "stack"
IoSourceDescriptor_super_speed_companion_descriptor == "stack"
IoSourceDescriptor_super_speed_plus_companion_descriptor == "stack"

\* what self.inner.as_ref() of a view reads: the member it was made from
\* while the pointer is good, any bytes of the type once it dangles
Deref(view, member, all_values) ==
  IF view = "stack" THEN all_values ELSE {member}

InitCapacity ==
  /\ NoWalk /\ NoMachines /\ NoPort /\ NoBridge /\ NoPower /\ NoFields
  /\ bridge = "alive"
  /\ NoSteps
  /\ io_source \in [descriptor : EndpointDescriptorValues,
                     ssCompanionDescriptor : SuperSpeedCompanionValues,
                     sspCompanionDescriptor : SuperSpeedPlusCompanionValues]
  /\ endpoint_speed \in {Variant("High", 0), Variant("Super", 0)}
  /\ views = NoViews
  /\ derived = NoDerived

\* io.endpoint_descriptor()
EndpointDescriptorView ==
  /\ views.endpoint = "none"
  /\ views' = [views EXCEPT !.endpoint = IoSourceDescriptor_endpoint_descriptor]
  /\ UNCHANGED <<io_source, endpoint_speed, derived>>
  /\ UNCHANGED <<walkVars, ciVars, portVars, bridgeVars, powerVars, fieldVars,
                 lifeVars, stepVars>>

\* io.super_speed_companion_descriptor()
SuperSpeedCompanionView ==
  /\ views.ss = "none"
  /\ views' = [views EXCEPT
                 !.ss = IoSourceDescriptor_super_speed_companion_descriptor]
  /\ UNCHANGED <<io_source, endpoint_speed, derived>>
  /\ UNCHANGED <<walkVars, ciVars, portVars, bridgeVars, powerVars, fieldVars,
                 lifeVars, stepVars>>

\* io.super_speed_plus_companion_descriptor()
SuperSpeedPlusCompanionView ==
  /\ views.ssp = "none"
  /\ views' = [views EXCEPT
                 !.ssp = IoSourceDescriptor_super_speed_plus_companion_descriptor]
  /\ UNCHANGED <<io_source, endpoint_speed, derived>>
  /\ UNCHANGED <<walkVars, ciVars, portVars, bridgeVars, powerVars, fieldVars,
                 lifeVars, stepVars>>

\* EndpointDescriptor::burst_size(speed, &ss, &ssp)
BurstSize ==
  /\ views.endpoint # "none" /\ views.ss # "none" /\ views.ssp # "none"
  /\ \E d \in Deref(views.endpoint, io_source.descriptor,
                     EndpointDescriptorValues),
        c \in Deref(views.ss, io_source.ssCompanionDescriptor,
                     SuperSpeedCompanionValues),
        p \in Deref(views.ssp, io_source.sspCompanionDescriptor,
                     SuperSpeedPlusCompanionValues) :
       derived' =
         [op |-> "burst_size",
          value |-> IOUSBGetEndpointBurstSize(
                      DeviceSpeed_into_u32(endpoint_speed), d, c, p)]
  /\ UNCHANGED <<io_source, endpoint_speed, views>>
  /\ UNCHANGED <<walkVars, ciVars, portVars, bridgeVars, powerVars, fieldVars,
                 lifeVars, stepVars>>

\* EndpointDescriptor::multiplier(speed, &ss, &ssp)
Multiplier ==
  /\ views.endpoint # "none" /\ views.ss # "none" /\ views.ssp # "none"
  /\ \E d \in Deref(views.endpoint, io_source.descriptor,
                     EndpointDescriptorValues),
        c \in Deref(views.ss, io_source.ssCompanionDescriptor,
                     SuperSpeedCompanionValues),
        p \in Deref(views.ssp, io_source.sspCompanionDescriptor,
                     SuperSpeedPlusCompanionValues) :
       derived' =
         [op |-> "multiplier",
          value |-> IOUSBGetEndpointMult(
                      DeviceSpeed_into_u32(endpoint_speed), d, c, p)]
  /\ UNCHANGED <<io_source, endpoint_speed, views>>
  /\ UNCHANGED <<walkVars, ciVars, portVars, bridgeVars, powerVars, fieldVars,
                 lifeVars, stepVars>>

\* EndpointDescriptor::max_streams(speed, &ss)
MaxStreams ==
  /\ views.endpoint # "none" /\ views.ss # "none"
  /\ \E d \in Deref(views.endpoint, io_source.descriptor,
                     EndpointDescriptorValues),
        c \in Deref(views.ss, io_source.ssCompanionDescriptor,
                     SuperSpeedCompanionValues) :
       derived' =
         [op |-> "max_streams",
          value |-> IOUSBGetEndpointMaxStreams(
                      DeviceSpeed_into_u32(endpoint_speed), d, c)]
  /\ UNCHANGED <<io_source, endpoint_speed, views>>
  /\ UNCHANGED <<walkVars, ciVars, portVars, bridgeVars, powerVars, fieldVars,
                 lifeVars, stepVars>>

NextCapacity ==
  \/ EndpointDescriptorView
  \/ SuperSpeedCompanionView
  \/ SuperSpeedPlusCompanionView
  \/ BurstSize
  \/ Multiplier
  \/ MaxStreams

SpecCapacity == InitCapacity /\ [][NextCapacity]_vars

\* the value each derivation has for the endpoint's own descriptor with no
\* companion at high speed
BasicValue(op) ==
  LET high == DeviceSpeed_into_u32(Variant("High", 0)) IN
  CASE op = "burst_size" ->
         IOUSBGetEndpointBurstSize(high, io_source.descriptor,
                                   AbsentCompanion, AbsentCompanion)
    [] op = "multiplier" ->
         IOUSBGetEndpointMult(high, io_source.descriptor,
                              AbsentCompanion, AbsentCompanion)
    [] op = "max_streams" ->
         IOUSBGetEndpointMaxStreams(high, io_source.descriptor,
                                    AbsentCompanion)

\* C23: for an endpoint at high speed whose companion descriptors are not
\* present, burst size, multiplier and max streams are the values derived
\* from the fields of the endpoint descriptor alone.
C23_HighSpeedFallback ==
  (/\ derived.op # "none"
   /\ endpoint_speed = Variant("High", 0)
   /\ io_source.ssCompanionDescriptor = AbsentCompanion
   /\ io_source.sspCompanionDescriptor = AbsentCompanion) =>
    derived.value = BasicValue(derived.op)

\* ------------------------------------------------------------------------
\* Walkers that open an object per descriptor (native services as
\* specified in spec.md 3 and 4.2)
\* ------------------------------------------------------------------------
\* IOUSBGetNextInterfaceDescriptor(config, cur)
IOUSBGetNextInterfaceDescriptor(cur) ==
  IOUSBGetNextDescriptorWithType(cur, Interface)

\* InterfaceDescriptors::next
InterfaceDescriptors_next(cur) ==
  LET next == IOUSBGetNextInterfaceDescriptor(cur) IN
  IF next = NULL THEN Step(cur, NULL) ELSE Step(next, next)

\* Interfaces::next: the interface object of the next interface descriptor
\* is opened; when the native init reports an error, or returns no object,
\* None is returned before current_descriptor is assigned
Interfaces_next(cur, init_error, interface_null) ==
  LET next == IOUSBGetNextInterfaceDescriptor(cur) IN
  IF next = NULL THEN Step(cur, NULL)
  ELSE IF init_error THEN Step(cur, NULL)
  ELSE IF interface_null THEN Step(cur, NULL)
  ELSE Step(next, next)

\* HostInterface::copy_pipe: if err.is_err() { return Err(err.into()) }
HostInterface_copy_pipe(copy_error) ==
  IF copy_error THEN Err("ChannelFailure") ELSE Ok

\* Pipes::next: current_descriptor is assigned before the pipe is copied;
\* the outcome of next() with the panic of a failed conversion set apart
Pipes_next(interface, cur, copy_error) ==
  LET next == IOUSBGetNextEndpointDescriptor(interface, cur) IN
  IF next = NULL THEN [step |-> Step(cur, NULL), panicked |-> FALSE]
  ELSE LET pipe == HostInterface_copy_pipe(copy_error) IN
       IF pipe = Panic THEN [step |-> Step(next, NULL), panicked |-> TRUE]
       ELSE IF pipe = Ok THEN [step |-> Step(next, next), panicked |-> FALSE]
       ELSE [step |-> Step(next, NULL), panicked |-> FALSE]

InitIfaces == InitWalk

\* UsbDevice::interfaces
interfaces == Fresh("Interfaces", NULL, NULL, NULL)

\* UsbDevice::interface_descriptors
interface_descriptors == Fresh("InterfaceDescriptors", NULL, NULL, NULL)

\* HostInterface::pipes
pipes ==
  \E d \in Headers :
    /\ bDescriptorType(d) = Interface
    /\ Fresh("Pipes", NULL, NULL, d)

InterfaceDescriptorsNext ==
  /\ kind = "InterfaceDescriptors"
  /\ Advance(InterfaceDescriptors_next(current_descriptor))

InterfacesNext ==
  /\ kind = "Interfaces"
  /\ \E init_error, interface_null \in BOOLEAN :
       Advance(Interfaces_next(current_descriptor, init_error,
                               interface_null))

\* a panic inside next() unwinds through the caller: the walker is gone
PipesNext ==
  /\ kind = "Pipes"
  /\ \E copy_error \in BOOLEAN :
       LET s == Pipes_next(interface_descriptor, current_descriptor,
                           copy_error) IN
       IF s.panicked
       THEN /\ calls < MaxCalls
            /\ kind' = Panic
            /\ calls' = calls + 1
            /\ current_descriptor' = s.step.current
            /\ lastItem' = NULL
            /\ UNCHANGED <<region, recs, cut, descriptor_type,
                           assoc_descriptor, interface_descriptor, yielded>>
            /\ UNCHANGED <<ciVars, restVars>>
       ELSE Advance(s.step)

NextIfaces ==
  \/ interfaces
  \/ interface_descriptors
  \/ pipes
  \/ InterfaceDescriptorsNext
  \/ InterfacesNext
  \/ PipesNext

SpecIfaces == InitIfaces /\ [][NextIfaces]_vars

\* C25: the positions a walker yields are strictly increasing (so no
\* record is yielded twice), and its cursor is the record yielded last, a
\* header inside the region.
C25_ForwardOnly ==
  /\ \A i, j \in 1..Len(yielded) : i < j => yielded[i] < yielded[j]
  /\ current_descriptor # NULL =>
       /\ current_descriptor >= 0
       /\ current_descriptor + HeaderSize <= N
       /\ yielded # <<>>
       /\ current_descriptor = yielded[Len(yielded)]

\* C25 witness: a walker yielded three records, each further into the
\* region, and then reported exhaustion with its cursor on the third
C25_Witness ==
  /\ Exhausted
  /\ Len(yielded) = 3
  /\ yielded[1] < yielded[2] /\ yielded[2] < yielded[3]
  /\ current_descriptor = yielded[3]

\* C24: once next() of a walker has returned none, every later next() on
\* it returns none as well.
C24_SinglePass ==
  [][(calls > 0 /\ lastItem = NULL /\ calls' = calls + 1) =>
       lastItem' = NULL]_vars

\* ------------------------------------------------------------------------
\* The raw flags of the port
\* ------------------------------------------------------------------------
\* C26: after set_powered(v), set_connected(v) or set_overcurrent(v) the
\* getter of that flag returns v, and the coarse port state, the link
\* state, the speed and the two other flags are what they were before.
C26_SettersFrame ==
  last.op \in {"set_powered", "set_connected", "set_overcurrent"} =>
    /\ last.op = "set_powered" => PortStateMachine_powered = last.flag
    /\ last.op = "set_connected" => PortStateMachine_connected = last.flag
    /\ last.op = "set_overcurrent" =>
         PortStateMachine_overcurrent = last.flag
    /\ PortStateMachine_port_state = PortState_from_u32(last.pre)
    /\ PortStateMachine_link_state = LinkState_from_u32(last.before.linkState)
    /\ PortStateMachine_speed = DeviceSpeed_from_u32(last.before.speed)
    /\ last.op # "set_powered" =>
         PortStateMachine_powered = last.before.powered
    /\ last.op # "set_connected" =>
         PortStateMachine_connected = last.before.connected
    /\ last.op # "set_overcurrent" =>
         PortStateMachine_overcurrent = last.before.overcurrent

\* C26 witness: set_connected(true) on an active port in U3 whose
\* overcurrent flag is set and whose powered flag is clear
C26_Witness ==
  /\ last.op = "set_connected" /\ last.flag
  /\ ~last.before.connected
  /\ PortStateMachine_connected
  /\ PortStateMachine_overcurrent /\ ~PortStateMachine_powered
  /\ portState = PortActive
  /\ PortStateMachine_link_state = Variant("U3", 0)

\* ------------------------------------------------------------------------
\* Lifetime of the state the native callback uses
\* ------------------------------------------------------------------------
\* C27: as long as a registered callback has not fired to its end (a
\* request is still held by the native side, or its callback is running),
\* the completion flag the callback sets is alive.
C27_FlagOutlivesCallback ==
  (outstanding # <<>> \/ cbPc # "idle") => bridge = "alive"

\* C29: once the native side has invoked the registered callback, on
\* another thread or on the polling thread before poll() has returned, the
\* bridge resolves in the end.
C29_EventuallyResolves ==
  (cbPc = "lock" \/ pollPc = "relock") ~> (pollResult = "Ready(Ok)")

\* ------------------------------------------------------------------------
\* Iterators that step a raw pointer by one element
\* ------------------------------------------------------------------------
\* CapabilityDescriptors, IoSourceDescriptors, SublinkSpeedAttrs and
\* DeviceCapabilityBillboardAltConfigurations hold one raw pointer, inner,
\* and no element count.  The pointer comes from a native getter
\* (capabilityDescriptors, descriptors, originalDescriptors), which may
\* give null, or from the address of an array member of a descriptor
\* (bmSublinkSpeedAttr, pAltConfigurations), which is never null.

\* the iterators whose start pointer a native getter gives
GetterIterators == {"CapabilityDescriptors", "IoSourceDescriptors"}

\* the iterators whose start pointer is the address of an array member
MemberIterators ==
  {"SublinkSpeedAttrs", "DeviceCapabilityBillboardAltConfigurations"}

\* ptr.add(count): the address moves by count elements; the result of
\* stepping null is an address that is not null
PtrAdd(ptr, count) == Ptr(ptr.base, ptr.offset + count)

\* NonNull::new(ptr), as the new() of every item type does: None for null
NonNull_new(ptr) == ptr # NullPtr

\* the result of a next(): the pointer field after it and the item
Yield(ptr, item) == [inner |-> ptr, some |-> TRUE, item |-> item]
NoYield(ptr) == [inner |-> ptr, some |-> FALSE, item |-> NullPtr]

\* CapabilityDescriptors::next: the pointer is stepped first, the stepped
\* pointer is the item, and the pointer field is left alone on None
CapabilityDescriptors_next(ptr) ==
  LET stepped == PtrAdd(ptr, 1) IN
  IF ~NonNull_new(stepped) THEN NoYield(ptr)
  ELSE Yield(stepped, stepped)

\* IoSourceDescriptors::next: the item is the pointer, then it is stepped
IoSourceDescriptors_next(ptr) ==
  IF ~NonNull_new(ptr) THEN NoYield(ptr)
  ELSE Yield(PtrAdd(ptr, 1), ptr)

\* SublinkSpeedAttrs::next: the u32 at the pointer is read, then it is
\* stepped
SublinkSpeedAttrs_next(ptr) ==
  IF ptr = NullPtr THEN NoYield(ptr)
  ELSE Yield(PtrAdd(ptr, 1), ptr)

\* DeviceCapabilityBillboardAltConfigurations::next
DeviceCapabilityBillboardAltConfigurations_next(ptr) ==
  IF ~NonNull_new(ptr) THEN NoYield(ptr)
  ELSE Yield(PtrAdd(ptr, 1), ptr)

\* next() of the iterator struct it
PointerIterator_next(it, ptr) ==
  CASE it = "CapabilityDescriptors" -> CapabilityDescriptors_next(ptr)
    [] it = "IoSourceDescriptors" -> IoSourceDescriptors_next(ptr)
    [] it = "SublinkSpeedAttrs" -> SublinkSpeedAttrs_next(ptr)
    [] OTHER -> DeviceCapabilityBillboardAltConfigurations_next(ptr)

\* does ptr point at one of the count elements that are present
InElements(ptr, count) == ptr.base = "array" /\ ptr.offset < count

\* number of elements an array behind a start pointer may hold
MaxElements == 4

\* an iterator made by its constructor: over an array of 0..MaxElements
\* elements, or, from a native getter, with a null start pointer
InitIter ==
  /\ NoWalk /\ NoMachines /\ NoPort /\ NoBridge /\ NoPower
  /\ NoFields /\ NoCapacity /\ bridge = "alive" /\ NoConfigurations
  /\ iterator \in GetterIterators \cup MemberIterators
  /\ elements \in 0..MaxElements
  /\ inner \in {Ptr("array", 0)} \cup
               (IF iterator \in GetterIterators /\ elements = 0
                THEN {NullPtr} ELSE {})
  /\ items = <<>>
  /\ nexts = 0
  /\ returned = "none"

\* one call of next() that returns
PointerNext ==
  /\ returned # "Fault"
  /\ nexts < elements + ExtraCalls
  /\ LET r == PointerIterator_next(iterator, inner) IN
       /\ inner' = r.inner
       /\ items' = IF r.some THEN Append(items, r.item) ELSE items
       /\ returned' = IF r.some THEN "Some" ELSE "None"
  /\ nexts' = nexts + 1
  /\ UNCHANGED <<iterator, elements>>
  /\ UNCHANGED <<walkVars, ciVars, portVars, bridgeVars, powerVars, fieldVars,
                 capVars, lifeVars, configVars>>

\* read_unaligned() of SublinkSpeedAttrs::next at an address past the
\* elements is a read outside the descriptor: it gives whatever lies there
\* (PointerNext) or the access faults
PointerReadFault ==
  /\ iterator = "SublinkSpeedAttrs"
  /\ returned # "Fault"
  /\ nexts < elements + ExtraCalls
  /\ ~InElements(inner, elements)
  /\ returned' = "Fault"
  /\ nexts' = nexts + 1
  /\ UNCHANGED <<iterator, elements, inner, items>>
  /\ UNCHANGED <<walkVars, ciVars, portVars, bridgeVars, powerVars, fieldVars,
                 capVars, lifeVars, configVars>>

NextIter ==
  \/ PointerNext
  \/ PointerReadFault

SpecIter == InitIter /\ [][NextIter]_vars

\* C28: a pointer-stepping iterator yields at most as many items as there
\* are elements present, every item is one of those elements, it yields
\* nothing when its start pointer is null, and once it has been called
\* more often than there are elements it has returned None.
C28_PointerIteratorsTerminate ==
  /\ Len(items) <= elements
  /\ \A i \in 1..Len(items) : InElements(items[i], elements)
  /\ inner.base = "null" => items = <<>>
  /\ nexts > elements => returned = "None"

\* ------------------------------------------------------------------------
\* Iterator over the configuration descriptors of a device
\* ------------------------------------------------------------------------
\* greatest value of a u8
U8Max == 255

\* a - b and a + b in u8 as a build without overflow checks computes them
WrappingSub8(a, b) == (a - b) % (U8Max + 1)
WrappingAdd8(a, b) == (a + b) % (U8Max + 1)

\* configurationDescriptorWithIndex:error: of the device: the descriptor
\* of a configuration the device has (named by its index here), an error
\* for an index it has none for
configurationDescriptorWithIndex(index, count) ==
  IF index < count THEN [is_err |-> FALSE, descriptor |-> index]
  ELSE [is_err |-> TRUE, descriptor |-> NULL]

\* the result of a next(): the idx field after it and what was returned
ConfigurationStep(i, result, descriptor) ==
  [idx |-> i, result |-> result, descriptor |-> descriptor]

\* ConfigurationDescriptors::next.  overflow_checks chooses the build:
\* configuration_count - 1 and idx += 1 panic on overflow with them and
\* wrap without.  A native error is converted by err.into(), which is
\* todo!().
ConfigurationDescriptors_next(count, i, overflow_checks) ==
  IF overflow_checks /\ count = 0 THEN ConfigurationStep(i, Panic, NULL)
  ELSE IF i = WrappingSub8(count, 1) THEN ConfigurationStep(i, "None", NULL)
  ELSE LET native == configurationDescriptorWithIndex(i, count) IN
       IF native.is_err THEN ConfigurationStep(i, Panic, NULL)
       ELSE IF overflow_checks /\ i = U8Max
         THEN ConfigurationStep(i, Panic, NULL)
       ELSE ConfigurationStep(WrappingAdd8(i, 1), "Some", native.descriptor)

\* UsbHostObject::configuration_descriptors: idx 0 and the count of the
\* device descriptor, any u8
InitConfigurations ==
  /\ NoWalk /\ NoMachines /\ NoPort /\ NoBridge /\ NoPower
  /\ NoFields /\ NoCapacity /\ bridge = "alive" /\ NoIterator
  /\ configuration_count \in 0..U8Max
  /\ idx = 0
  /\ configurations = <<>>
  /\ configuration_calls = 0
  /\ configuration_result = "none"

\* one call of next()
ConfigurationDescriptorsNext ==
  /\ configuration_result # Panic
  /\ configuration_calls < configuration_count + ExtraCalls
  /\ \E overflow_checks \in BOOLEAN :
       LET r == ConfigurationDescriptors_next(configuration_count, idx,
                                              overflow_checks) IN
         /\ idx' = r.idx
         /\ configuration_result' = r.result
         /\ configurations' = IF r.result = "Some"
                              THEN Append(configurations, r.descriptor)
                              ELSE configurations
  /\ configuration_calls' = configuration_calls + 1
  /\ UNCHANGED configuration_count
  /\ UNCHANGED <<walkVars, ciVars, portVars, bridgeVars, powerVars, fieldVars,
                 capVars, lifeVars, iterVars>>

NextConfigurations == ConfigurationDescriptorsNext

SpecConfigurations == InitConfigurations /\ [][NextConfigurations]_vars

\* C30: the iterator over a device of configuration_count c never panics,
\* yields the descriptors of the indices 0, 1, ... in that order, at most
\* c of them, and when it returns None it has yielded all c.
C30_YieldsEveryConfiguration ==
  /\ configuration_result # Panic
  /\ Len(configurations) <= configuration_count
  /\ \A i \in 1..Len(configurations) : configurations[i] = i - 1
  /\ configuration_result = "None" =>
       Len(configurations) = configuration_count

====
